---------------------------- MODULE Spec2Model ----------------------------
(***************************************************************************)
(* Download orchestration engine of spiders-for-all                        *)
(* (src/spiders_for_all/core/downloader.py):                               *)
(*   - LinerTask    : a sequential task with optional late-bound arguments *)
(*   - DownloadTask : a streamed transfer with URL failover and one restart*)
(*   - BaseDownloader / BaseBatchDownloader : item pipeline and batch      *)
(* and utils/decorator.py (retry), utils/helper.py (read_ids_to_list),     *)
(* spiders/bilibili/downloader.py and spiders/xhs/downloader.py.           *)
(* Ten specifications share the module's variables:                        *)
(*   SpecTask      - LinerTask construction and start()                    *)
(*   SpecTransfer  - one DownloadTask driven by a consumer of start()      *)
(*   SpecItem      - one item downloader: its pipeline, its transfer pool  *)
(*                   and handle_futures                                    *)
(*   Spec          - item pipelines run standalone or by a batch built     *)
(*                   with the default exit_on_download_failed=True         *)
(*   SpecKeepGoing - the batch built with exit_on_download_failed=False    *)
(*   SpecLife      - one download() from call to return under a caller or  *)
(*                   a batch worker, with the finally clause and the hook  *)
(*   SpecRetry     - one call of a function wrapped by retry()             *)
(*   SpecDirs      - the save directories of a batch's item downloaders    *)
(*   SpecPools     - the batch pool and the pools of the items' transfers  *)
(*   SpecPoolsFair - SpecPools with threads that are not starved           *)
(***************************************************************************)
EXTENDS Integers, Sequences, FiniteSets, TLC

(***************************************************************************)
(* Bounds of the model.                                                    *)
(***************************************************************************)
\* number of LinerTask objects built in SpecTask
MaxTasks == 2
\* the shared attribute inst.val ranges over 0..MaxVal
MaxVal == 1
\* backup URLs of a media (media.urls has 1..MaxBackups+1 entries)
MaxBackups == 1
\* chunks a response delivers at most
MaxChunks == 2
\* max_retries passed to client.request by DownloadTask.request
MaxRetries == 3
\* item downloaders of a batch
NItems == 3
\* largest max_workers of the batch pool
MaxWorkers == 2
\* tasks prepare_tasks() appends to an item's pipeline
NSteps == 2

VARIABLES
    \* ---- SpecTask ----
    inst_val,       \* the shared state a delay provider reads (inst.val)
    ltasks,         \* sequence of LinerTask objects, in construction order
    ltlog,          \* per LinerTask: observations of its start() calls
    \* ---- SpecTransfer: one DownloadTask and the consumer of start() ----
    nUrls,          \* len(media.urls): candidate 1 is the primary URL
    tpc,            \* where the start()/write()/request() generators stand
    attempt,        \* which write() call of start() is running (1 or 2)
    urlIdx,         \* the candidate URL the request loop is at
    tryNo,          \* the attempt index of the retry loop (0..max_retries)
    total_size,     \* DownloadTask._total_size: <<>> is None, <<n>> is n
    client,         \* DownloadTask.client: the HttpClient in use, a record of
                    \* its identity and the settings it was constructed with
    file,           \* chunks held by output_file
    opens,          \* number of open(output_file, "wb") calls
    gotFirst,       \* write(): `total_size = next(generator)` has returned
    yielded,        \* the items start() yielded to its consumer, in order
    finished,       \* DownloadTask._finished
    terr,           \* the exception start() ended with, or "none"
    contacts,       \* every session.request call: [attempt, url, ok]
    delivered,      \* the chunks the response delivered, per write() call
    header,         \* Content-Length of the first successful response
    consumer,       \* the method of BaseDownloader that iterates start()
    \* ---- Spec: item downloaders and their driver ----
    mode,           \* "single": list(d.download()); "progress"/"direct":
                    \* BaseBatchDownloader.download() with from_cli set/unset
    max_workers,    \* BaseBatchDownloader.max_workers
    nItems,         \* len(self.downloaders)
    bpc,            \* where the main thread stands
    ipc,            \* per item: where its driver (worker thread) stands
    istate,         \* per item: BaseDownloader.state
    prepared,       \* per item: BaseDownloader._prepared
    ntasks,         \* per item: len(self.tasks)
    step,           \* per item: number of tasks whose start() was called
    raised,         \* per item: what the last started task raised, or "none"
    exc_info,       \* per item: exc_info is set (not (NOT_SET, NOT_SET))
    pending,        \* per item: the exception that left its driver
    unexpected,     \* per item: local of update_downloader_progress
    tmp,            \* per item: the counter value its worker loaded
    handled,        \* per item: the main thread took the future's result
    success_count,  \* BaseBatchDownloader.success_count
    failed_count,   \* BaseBatchDownloader.failed_count
    batch_exit_on_download_failed,
                    \* BaseBatchDownloader.exit_on_download_failed
    moved,          \* per item: its files the batch renamed into the shared
                    \* directories ("log", "output")
    removed,        \* per item: the batch removed its save directory
    \* ---- SpecItem: one item downloader, its pipeline and its transfers ----
    from_cli,       \* BaseDownloader.from_cli: which transfer runner is used
    exit_on_download_failed,  \* BaseDownloader.exit_on_download_failed
    tasks,          \* BaseDownloader.tasks: the names of the appended tasks
    task_fns,       \* BaseDownloader.tasks: the function of each task
    process_func,   \* BilibiliDownloader.process_func
    dprepared,      \* BaseDownloader._prepared
    download_tasks, \* per DownloadTask: "running" or how its future ended
    dpc,            \* where download() and its caller stand
    dstate,         \* BaseDownloader.state
    started,        \* number of tasks whose start() was called
    trace,          \* start/return events of the tasks, in order
    fs_done,        \* futures whose result handle_futures has taken
    leaving,        \* the exception that is leaving handle_futures
    draised,        \* what the last started task raised, or "none"
    dexc_info,      \* BaseDownloader.exc_info: the recorded exception
    errors,         \* error entries the item logged (self.log at ERROR)
    escaped,        \* the exception download() let out to its caller
    \* ---- the smaller specifications: one record each ----
    retry,          \* SpecRetry: one call of a function wrapped by retry()
    life,           \* SpecLife: one item downloader under its driver
    dirs,           \* SpecDirs: the save directories of a batch's items
    pools           \* SpecPools: the batch pool and the items' pools

taskVars == <<inst_val, ltasks, ltlog>>

transferVars == <<nUrls, tpc, attempt, urlIdx, tryNo, total_size, client, file,
                  opens, gotFirst, yielded, finished, terr, contacts,
                  delivered, header, consumer>>

\* the flag of the batch that no action assigns
batchConfig == <<batch_exit_on_download_failed>>

batchVars == <<mode, max_workers, nItems, bpc, ipc, istate, prepared, ntasks,
               step, raised, exc_info, pending, unexpected, tmp, handled,
               success_count, failed_count, moved, removed, batchConfig>>

itemVars == <<from_cli, exit_on_download_failed, tasks, task_fns,
              process_func, dprepared,
              download_tasks, dpc, dstate, started, trace, fs_done, leaving,
              draised, dexc_info, errors, escaped>>

\* the state of the smaller specifications
extraVars == <<retry, life, dirs, pools>>

\* what the actions of one specification leave alone
notTask == <<transferVars, batchVars, itemVars, extraVars>>
notTransfer == <<taskVars, batchVars, itemVars, extraVars>>
notBatch == <<taskVars, transferVars, itemVars, batchConfig, extraVars>>
notItem == <<taskVars, transferVars, batchVars, extraVars>>
mainVars == <<taskVars, transferVars, batchVars, itemVars>>
notRetry == <<mainVars, life, dirs, pools>>
notLife == <<mainVars, retry, dirs, pools>>
notDirs == <<mainVars, retry, life, pools>>
notPools == <<mainVars, retry, life, dirs>>

vars == <<mainVars, extraVars>>

Vals == 0..MaxVal

(***************************************************************************)
(* The parts of the state a specification does not use stay as built.      *)
(***************************************************************************)
TaskIdle ==
    /\ inst_val = 0
    /\ ltasks = <<>>
    /\ ltlog = <<>>

TransferIdle ==
    /\ nUrls = 1
    /\ tpc = "idle"
    /\ attempt = 0
    /\ urlIdx = 0
    /\ tryNo = 0
    /\ total_size = <<>>
    /\ client = 0
    /\ file = <<>>
    /\ opens = 0
    /\ gotFirst = FALSE
    /\ yielded = <<>>
    /\ finished = FALSE
    /\ terr = "none"
    /\ contacts = <<>>
    /\ delivered = <<>>
    /\ header = <<>>
    /\ consumer = "none"

BatchIdle ==
    /\ batch_exit_on_download_failed = TRUE
    /\ mode = "single"
    /\ max_workers = 1
    /\ nItems = 1
    /\ bpc = "single"
    /\ ipc = [i \in 1..NItems |-> "queued"]
    /\ istate = [i \in 1..NItems |-> "NOT_STARTED"]
    /\ prepared = [i \in 1..NItems |-> FALSE]
    /\ ntasks = [i \in 1..NItems |-> 0]
    /\ step = [i \in 1..NItems |-> 0]
    /\ raised = [i \in 1..NItems |-> "none"]
    /\ exc_info = [i \in 1..NItems |-> FALSE]
    /\ pending = [i \in 1..NItems |-> "none"]
    /\ unexpected = [i \in 1..NItems |-> FALSE]
    /\ tmp = [i \in 1..NItems |-> 0]
    /\ handled = [i \in 1..NItems |-> FALSE]
    /\ success_count = 0
    /\ failed_count = 0
    /\ moved = [i \in 1..NItems |-> {}]
    /\ removed = [i \in 1..NItems |-> FALSE]

ItemIdle ==
    /\ from_cli = TRUE
    /\ exit_on_download_failed = TRUE
    /\ tasks = <<>>
    /\ task_fns = <<>>
    /\ process_func = "none"
    /\ dprepared = FALSE
    /\ download_tasks = <<>>
    /\ dpc = "idle"
    /\ dstate = "NOT_STARTED"
    /\ started = 0
    /\ trace = <<>>
    /\ fs_done = {}
    /\ leaving = "none"
    /\ draised = "none"
    /\ dexc_info = "NOT_SET"
    /\ errors = 0
    /\ escaped = "none"

\* outside its own specification a record of the smaller specifications
\* is empty
RetryIdle == retry = <<>>

LifeIdle == life = <<>>

DirsIdle == dirs = <<>>

PoolsIdle == pools = <<>>

ExtraIdle == RetryIdle /\ LifeIdle /\ DirsIdle /\ PoolsIdle

MainIdle == TaskIdle /\ TransferIdle /\ BatchIdle /\ ItemIdle

(***************************************************************************)
(* LinerTask                                                               *)
(***************************************************************************)
\* LinerTask.__init__: args/kwargs default to the empty tuple/dict; delay is
\* true when a provider was given.  A given value is the shared value as it is
\* at construction time (args=(inst.val,)); a provider is lambda: (inst.val,).
LinerTask_init(fn, hasArgs, hasKwargs, hasDelayArgs, hasDelayKwargs, val) ==
    [ fn           |-> fn,
      args         |-> IF hasArgs THEN <<val>> ELSE <<>>,
      kwargs       |-> IF hasKwargs THEN <<val>> ELSE <<>>,
      delay_args   |-> hasDelayArgs,
      delay_kwargs |-> hasDelayKwargs,
      delay        |-> hasDelayArgs \/ hasDelayKwargs,
      finished     |-> FALSE ]

\* what a start() that reads the providers at construction time would pass
StartBindingFrozen(task, val) ==
    [ args |-> task.args, kwargs |-> task.kwargs ]

\* LinerTask.start, lines 145-149: the args and kwargs the function is called
\* with, val being the shared value at the time of the call.
StartBinding(task, val) ==
    [ args   |-> IF task.delay /\ task.delay_args THEN <<val>> ELSE task.args,
      kwargs |-> IF task.delay /\ task.delay_kwargs THEN <<val>> ELSE task.kwargs ]

\* a start() that sets the flag whatever the function did
StartFinishedAlways(task, fnRaised) == TRUE

\* LinerTask.start, lines 150-151: _finished is assigned after the call of fn
\* returned; a raise leaves the assignment unexecuted.
StartFinished(task, fnRaised) ==
    IF fnRaised THEN task.finished ELSE TRUE

\* the ways a pipeline binds a task's arguments: fixed positional, fixed
\* keyword, late positional, late keyword
BindModes == {"args", "kwargs", "delay_args", "delay_kwargs"}

\* ltasks.append(LinerTask(fn, <one binding>))
Construct ==
    /\ Len(ltasks) < MaxTasks
    /\ \E bm \in BindModes :
         /\ ltasks' = Append(ltasks,
                        LinerTask_init("fn", bm = "args", bm = "kwargs",
                                       bm = "delay_args",
                                       bm = "delay_kwargs", inst_val))
         /\ ltlog' = Append(ltlog,
                        [ mode |-> bm, called |-> FALSE, returned |-> FALSE,
                          builtVal |-> inst_val, startVal |-> inst_val,
                          seen |-> [args |-> <<>>, kwargs |-> <<>>] ])
    /\ UNCHANGED <<inst_val, notTask>>

\* task.start(): bind the arguments, call fn, set the flag.  fn receives the
\* bound arguments and either returns, possibly after assigning the shared
\* attribute (fn_1 of the docstring: inst.val = v), or raises.
LinerTaskStart(i) ==
    /\ i \in 1..Len(ltasks)
    /\ \E fnRaised \in BOOLEAN, v \in Vals :
         LET task == ltasks[i]
             b    == StartBinding(task, inst_val)
         IN  /\ ltasks' = [ltasks EXCEPT
                   ![i].args = b.args,
                   ![i].kwargs = b.kwargs,
                   ![i].finished = StartFinished(task, fnRaised)]
             /\ ltlog' = [ltlog EXCEPT
                   ![i].called = TRUE,
                   ![i].returned = IF fnRaised THEN @ ELSE TRUE,
                   ![i].startVal = inst_val,
                   ![i].seen = b]
             /\ inst_val' = IF fnRaised THEN inst_val ELSE v
    /\ UNCHANGED notTask

(***************************************************************************)
(* DownloadTask                                                            *)
(***************************************************************************)
\* Content-Length headers a server may send: none, 0, or 8 (two 4-byte
\* chunks, the scenario of the test plan)
SizeHeaders == {<<>>, <<0>>, <<8>>}

\* Media.urls: the ordered candidates, primary first, then the backups in
\* their order; candidates are named by their position in that list.
MediaUrls(n) == [k \in 1..n |-> k]

\* the k-th chunk the response of write() call a delivers
Chunk(a, k) == [a |-> a, k |-> k]

\* int(r.headers.get("Content-Length", 0)), line 200
ContentLength(h) == IF h = <<>> THEN 0 ELSE h[1]

\* a request() that reports the size of every response
NeedsTotalSizeAlways(ts) == TRUE

\* request(), line 199: `if self._total_size is None`
NeedsTotalSize(ts) == ts = <<>>

\* an open() in append mode
OpenAppend(f) == f

\* write(), line 221: open(self.output_file, "wb") truncates the file
OpenTruncate(f) == <<>>

\* write(), lines 223-224: the first item of request() is taken as the total
\* size and yielded without being written
WriteSkips(got) == ~got

\* a request loop that gives up on a candidate after its first failure
RetryExhaustedAtOnce(t) == TRUE

\* retry.inner, lines 35-36: MaxRetryExceedError when the failed attempt was
\* attempt number max_retries (attempts are numbered from 0)
RetryExhausted(t) == t = MaxRetries

\* a request() that ends silently when no candidate could be reached: the
\* next() of write() then meets the end of the generator
RequestEndSilent(ok) ==
    IF ok THEN "none" ELSE "RuntimeError: generator raised StopIteration"

\* request(), lines 217-218: `if not ok: raise ValueError("All urls failed.")`
\* after the loop over media.urls
RequestEnd(ok) == IF ok THEN "none" ELSE "ValueError: All urls failed."

\* the settings an HttpClient is constructed with (client.py, lines 74-89):
\* headers, cookies, proxies and the retry settings; "none" is the default
ClientSettings ==
    { [headers |-> "none", cookies |-> "none", proxies |-> "none",
       retry_settings |-> "none"],
      [headers |-> "Referer", cookies |-> "SESSDATA", proxies |-> "http",
       retry_settings |-> "max_retries"] }

\* HttpClient.__init__, client.py lines 74-89: instance number id with its
\* own requests.Session
HttpClient(id, st) ==
    [id |-> id, headers |-> st.headers, cookies |-> st.cookies,
     proxies |-> st.proxies, retry_settings |-> st.retry_settings]

\* a new() that builds a client with the default settings
newDefault(c) ==
    HttpClient(c.id + 1,
               [headers |-> "none", cookies |-> "none", proxies |-> "none",
                retry_settings |-> "none"])

\* HttpClient.new, client.py lines 131-140: another instance constructed from
\* the proxies, _headers, _cookies and retry_settings of this one
new(c) == HttpClient(c.id + 1, c)

\* start()/write(), lines 221-223 and 230-236: open the file for writing,
\* truncating it, create the request generator and advance it; request()
\* enters `with self.client` and the loop over media.urls.
WriteOpen ==
    /\ tpc \in {"idle", "rewrite"}
    /\ attempt' = IF tpc = "idle" THEN 1 ELSE 2
    /\ file' = OpenTruncate(file)
    /\ opens' = opens + 1
    /\ gotFirst' = FALSE
    /\ delivered' = <<>>
    /\ urlIdx' = 1
    /\ tryNo' = 0
    /\ tpc' = "connect"
    /\ UNCHANGED <<consumer,
                   nUrls, total_size, client, yielded, finished, terr,
                   contacts, header,
                   notTransfer>>

\* client.request(...) under retry(max_retries=3, interval=5, step=0): one
\* call of session.request + raise_for_status for the current candidate.
\*  - success: request() holds the response (line 198)
\*  - failure before the budget is used up: sleep, next attempt
\*  - failure of the last attempt: MaxRetryExceedError, caught at line 207,
\*    the loop goes to the next candidate; after the last candidate
\*    `raise ValueError("All urls failed.")`, which start() does not catch.
RequestTry ==
    /\ tpc = "connect"
    /\ \E ok \in BOOLEAN :
         /\ contacts' = Append(contacts,
                [attempt |-> attempt, url |-> MediaUrls(nUrls)[urlIdx],
                 ok |-> ok])
         /\ IF ok
            THEN /\ tpc' = "response"
                 /\ UNCHANGED <<urlIdx, tryNo, terr>>
            ELSE IF ~RetryExhausted(tryNo)
            THEN /\ tryNo' = tryNo + 1
                 /\ UNCHANGED <<tpc, urlIdx, terr>>
            ELSE IF urlIdx < nUrls
            THEN /\ urlIdx' = urlIdx + 1
                 /\ tryNo' = 0
                 /\ UNCHANGED <<tpc, terr>>
            ELSE /\ tpc' = "error"
                 /\ terr' = RequestEnd(FALSE)
                 /\ UNCHANGED <<urlIdx, tryNo>>
    /\ UNCHANGED <<consumer,
                   nUrls, attempt, total_size, client, file, opens, gotFirst,
                   yielded, finished, delivered, header,
                   notTransfer>>

\* request(), lines 199-201, with write() lines 223-224: the first response
\* of the task sets _total_size from Content-Length and yields it; write()
\* takes it as its first item and yields it to the consumer.  A response
\* that arrives when _total_size is already set yields nothing here.
OnResponse ==
    /\ tpc = "response"
    /\ \E h \in SizeHeaders :
         IF NeedsTotalSize(total_size)
         THEN /\ total_size' = <<ContentLength(h)>>
              /\ header' = IF header = <<>> THEN <<ContentLength(h)>>
                           ELSE header
              /\ gotFirst' = TRUE
              /\ yielded' = Append(yielded,
                    [kind |-> "size", val |-> <<ContentLength(h)>>])
         ELSE /\ header' = IF header = <<>> THEN <<ContentLength(h)>>
                           ELSE header
              /\ UNCHANGED <<total_size, gotFirst, yielded>>
    /\ tpc' = "stream"
    /\ UNCHANGED <<consumer,
                   nUrls, attempt, urlIdx, tryNo, client, file, opens,
                   finished, terr, contacts, delivered,
                   notTransfer>>

\* the strategies that iterate DownloadTask.start(): run_download_task
\* (lines 397-404, the logging strategy) and _update_progress (lines
\* 414-421, the live-progress strategy)
Consumers == {"run_download_task", "_update_progress"}

\* what the body of the consumer's loop over the chunks does with a chunk,
\* `total` being the first item it took from start().  run_download_task,
\* line 402: len(chunk) / total_size * 100, a ZeroDivisionError when the
\* total is 0.  _update_progress, line 421: progress.update(task_id,
\* total=total_size, advance=len(chunk)), which does not divide.
OnChunk(c, total) ==
    IF c = "run_download_task" /\ total = 0 THEN "ZeroDivisionError"
    ELSE "none"

\* request() line 202-203 with write() lines 223-227: iter_content delivers
\* the next chunk; write() takes it as the total size when it is the first
\* item it got from request(), and otherwise writes it to the file; either
\* way it is yielded to the consumer, whose loop body handles it.  An
\* exception of that body leaves the consumer: start() is not resumed, the
\* file is closed when the abandoned generator is finalized.
StreamChunk ==
    /\ tpc = "stream"
    /\ Len(delivered) < MaxChunks
    /\ LET c == Chunk(attempt, Len(delivered) + 1)
           e == OnChunk(consumer, yielded[1].val[1])
       IN  /\ delivered' = Append(delivered, c)
           /\ yielded' = Append(yielded, [kind |-> "chunk", val |-> c])
           /\ IF WriteSkips(gotFirst)
              THEN /\ gotFirst' = TRUE
                   /\ UNCHANGED file
              ELSE /\ file' = Append(file, c)
                   /\ UNCHANGED gotFirst
           /\ tpc' = IF e = "none" THEN tpc ELSE "error"
           /\ terr' = IF e = "none" THEN terr ELSE e
    /\ UNCHANGED <<consumer,
                   nUrls, attempt, urlIdx, tryNo, total_size,
                   client, opens, finished, contacts, header,
                   notTransfer>>

\* request() lines 205-206 and 217: iter_content is exhausted, ok = True,
\* break; request() returns.  write(): the `for` ends and the file is closed,
\* or, when request() ended before giving write() its first item, next()
\* raises StopIteration inside the generator write(), which Python turns into
\* RuntimeError.  start(), line 238: _finished = True after write() returned.
StreamEnd ==
    /\ tpc = "stream"
    /\ IF gotFirst
       THEN /\ tpc' = "done"
            /\ finished' = TRUE
            /\ UNCHANGED terr
       ELSE /\ tpc' = "error"
            /\ terr' = "RuntimeError: generator raised StopIteration"
            /\ UNCHANGED finished
    /\ UNCHANGED <<consumer,
                   nUrls, attempt, urlIdx, tryNo, total_size, client, file,
                   opens, gotFirst, yielded, contacts, delivered, header,
                   notTransfer>>

\* a request() that treats an error of iter_content like a connection
\* failure and goes on with the next candidate
StreamBreakFailsOver ==
    /\ tpc = "stream"
    /\ IF urlIdx < nUrls
       THEN /\ urlIdx' = urlIdx + 1
            /\ tryNo' = 0
            /\ tpc' = "connect"
            /\ UNCHANGED terr
       ELSE /\ tpc' = "error"
            /\ terr' = RequestEnd(FALSE)
            /\ UNCHANGED <<urlIdx, tryNo>>
    /\ UNCHANGED <<consumer,
                   nUrls, attempt, total_size, client, file, opens,
                   gotFirst, yielded, finished, contacts, delivered, header,
                   notTransfer>>

\* request() lines 211-216: iter_content raises a RequestException, turned
\* into ReWriteRequiredError; write() closes the file.  start(), lines
\* 232-236: the first write() is replaced by a second one on a new client;
\* the error of the second write() propagates.
StreamBreak ==
    /\ tpc = "stream"
    /\ IF attempt = 1
       THEN /\ tpc' = "rewrite"
            /\ client' = new(client)
            /\ UNCHANGED terr
       ELSE /\ tpc' = "error"
            /\ terr' = "ReWriteRequiredError"
            /\ UNCHANGED client
    /\ UNCHANGED <<consumer,
                   nUrls, attempt, urlIdx, tryNo, total_size, file, opens,
                   gotFirst, yielded, finished, contacts, delivered, header,
                   notTransfer>>

\* DownloadTask.__init__, lines 167-179, for a media with 0..MaxBackups
\* backup URLs and the client it is given or builds; the output file may hold
\* the chunks of an earlier run.  start() is iterated by one of the two
\* strategies of BaseDownloader.
InitTransfer ==
    /\ nUrls \in 1..(MaxBackups + 1)
    /\ tpc = "idle"
    /\ attempt = 0
    /\ urlIdx = 0
    /\ tryNo = 0
    /\ total_size = <<>>
    /\ client \in {HttpClient(0, st) : st \in ClientSettings}
    /\ file \in {<<>>, <<Chunk(0, 1)>>}
    /\ opens = 0
    /\ gotFirst = FALSE
    /\ yielded = <<>>
    /\ finished = FALSE
    /\ terr = "none"
    /\ contacts = <<>>
    /\ delivered = <<>>
    /\ header = <<>>
    /\ consumer \in Consumers
    /\ TaskIdle
    /\ BatchIdle
    /\ ItemIdle
    /\ ExtraIdle

NextTransfer ==
    \/ WriteOpen
    \/ RequestTry
    \/ OnResponse
    \/ StreamChunk
    \/ StreamEnd
    \/ StreamBreak

SpecTransfer == InitTransfer /\ [][NextTransfer]_vars

(***************************************************************************)
(* BaseDownloader and BaseBatchDownloader                                  *)
(***************************************************************************)
Items == 1..nItems

\* what the function of a task may raise: an Exception with a message, an
\* Exception with empty args, SystemExit (exit(1) in handle_futures, line
\* 464) and KeyboardInterrupt
RaiseKinds == {"Exception", "ExceptionNoArgs", "SystemExit",
               "KeyboardInterrupt"}

\* a download() that does not record the failure
StateAfterRaiseKeeps(kind, cur) == cur

\* download(), lines 374-378: `except KeyboardInterrupt: raise`, then
\* `except Exception` assigns FAILED; SystemExit is not an Exception and
\* passes both handlers
StateAfterRaise(kind, cur) ==
    IF kind \in {"Exception", "ExceptionNoArgs"} THEN "FAILED" ELSE cur

\* download(), lines 374-386: the exception that leaves the generator.  The
\* handler's f"Error: {e.args[0]}" raises IndexError when args is empty.
Escapes(kind) ==
    IF kind = "Exception" THEN "none"
    ELSE IF kind = "ExceptionNoArgs" THEN "IndexError"
    ELSE kind

\* the items whose pipeline is on a worker thread
Running == {i \in Items : ipc[i] \notin {"queued", "done"}}

\* a pool that gives every submitted work item a thread of its own
PoolTakesUnbounded(i) ==
    /\ bpc # "init"
    /\ i \in Items
    /\ ipc[i] = "queued"
    /\ \A j \in Items : j < i => ipc[j] # "queued"

\* ThreadPoolExecutor(max_workers): work items are taken in submission order
\* by at most max_workers threads
PoolTakes(i) ==
    /\ bpc # "init"
    /\ i \in Items
    /\ ipc[i] = "queued"
    /\ \A j \in Items : j < i => ipc[j] # "queued"
    /\ Cardinality(Running) < max_workers

\* BaseBatchDownloader.download, lines 652-656 with 516-552: every downloader
\* is submitted to the pool, the main thread waits in
\* handle_downloader_futures
BatchDownload ==
    /\ bpc = "init"
    /\ bpc' = "waiting"
    /\ UNCHANGED <<mode, max_workers, nItems, ipc, istate, prepared, ntasks,
                   step, raised, exc_info, pending, unexpected, tmp, handled,
                   success_count, failed_count, moved, removed,
                   notBatch>>

\* run_downloader, lines 554-556: download() is a generator function, so the
\* call only builds a generator object that nobody iterates; then
\* clean_downloader_save_dir.
RunDownloader(i) ==
    /\ mode = "direct"
    /\ PoolTakes(i)
    /\ ipc' = [ipc EXCEPT ![i] = "done"]
    /\ removed' = [removed EXCEPT ![i] = TRUE]
    /\ UNCHANGED <<mode, max_workers, nItems, bpc, istate, prepared, ntasks,
                   step, raised, exc_info, pending, unexpected, tmp, handled,
                   success_count, failed_count, moved,
                   notBatch>>

\* update_downloader_progress, lines 564-573: prepare_tasks() appends the
\* pipeline and sets _prepared; unexpected = False
UdpBegin(i) ==
    /\ mode = "progress"
    /\ PoolTakes(i)
    /\ ipc' = [ipc EXCEPT ![i] = "iter"]
    /\ prepared' = [prepared EXCEPT ![i] = TRUE]
    /\ ntasks' = [ntasks EXCEPT ![i] = @ + NSteps]
    /\ unexpected' = [unexpected EXCEPT ![i] = FALSE]
    /\ UNCHANGED <<mode, max_workers, nItems, bpc, istate, step, raised,
                   exc_info, pending, tmp, handled, success_count,
                   failed_count, moved, removed,
                   notBatch>>

\* a worker without the bare `except:` clause
DriverAfterNoCatch(i, e) == IF mode = "single" THEN "done" ELSE "finally"

\* where the driver of item i goes when download() yields, returns, or lets
\* exception e escape: list() in "single" mode (caller of download()), the
\* try statement of update_downloader_progress (lines 575-594) otherwise
DriverAfter(i, e) ==
    IF mode = "single" THEN "done"
    ELSE IF e \in {"none", "KeyboardInterrupt"} THEN "finally"
    ELSE "except"

\* a download() that prepares the tasks whether or not they are prepared
NeedsPrepareAlways(p) == TRUE

\* download(), lines 369-370: `if not self._prepared: self.prepare_tasks()`
NeedsPrepare(p) == ~p

\* One next() on the generator download() (lines 365-395, run_tasks 353-360).
\* The first one assigns STARTED and prepares the tasks if needed.  Then the
\* next task is started: it returns (the task is yielded to the driver) or
\* raises; when no task is left the state becomes FINISHED.  The finally
\* clause (save the transcript, after_download) runs when the generator ends.
DownloadStep(i) ==
    /\ i \in Items
    /\ ipc[i] = "iter"
    /\ LET n == IF NeedsPrepare(prepared[i]) THEN ntasks[i] + NSteps
                ELSE ntasks[i]
       IN  /\ prepared' = [prepared EXCEPT ![i] = TRUE]
           /\ ntasks' = [ntasks EXCEPT ![i] = n]
           /\ \/ /\ step[i] < n
                 /\ step' = [step EXCEPT ![i] = @ + 1]
                 /\ istate' = [istate EXCEPT ![i] = "STARTED"]
                 /\ UNCHANGED <<ipc, raised, exc_info, pending>>
              \/ /\ step[i] < n
                 /\ step' = [step EXCEPT ![i] = @ + 1]
                 /\ \E kind \in RaiseKinds :
                      /\ raised' = [raised EXCEPT ![i] = kind]
                      /\ istate' = [istate EXCEPT
                                      ![i] = StateAfterRaise(kind, "STARTED")]
                      /\ exc_info' = [exc_info EXCEPT
                            ![i] = kind \in {"Exception", "ExceptionNoArgs"}]
                      /\ pending' = [pending EXCEPT
                            ![i] = IF mode = "single"
                                      \/ kind = "KeyboardInterrupt"
                                   THEN Escapes(kind) ELSE "none"]
                      /\ ipc' = [ipc EXCEPT
                                   ![i] = DriverAfter(i, Escapes(kind))]
              \/ /\ step[i] = n
                 /\ istate' = [istate EXCEPT ![i] = "FINISHED"]
                 /\ ipc' = [ipc EXCEPT ![i] = DriverAfter(i, "none")]
                 /\ UNCHANGED <<step, raised, exc_info, pending>>
    /\ UNCHANGED <<mode, max_workers, nItems, bpc, unexpected, tmp, handled,
                   success_count, failed_count, moved, removed,
                   notBatch>>

\* update_downloader_progress, line 592, first half of
\* `self.failed_count += 1`: the worker loads the attribute
UdpExceptRead(i) ==
    /\ i \in Items
    /\ ipc[i] = "except"
    /\ tmp' = [tmp EXCEPT ![i] = failed_count]
    /\ ipc' = [ipc EXCEPT ![i] = "except_w"]
    /\ UNCHANGED <<mode, max_workers, nItems, bpc, istate, prepared, ntasks,
                   step, raised, exc_info, pending, unexpected, handled,
                   success_count, failed_count, moved, removed,
                   notBatch>>

\* lines 592-594: the worker stores the sum, then state = FAILED and
\* unexpected = True.  The finally clause that follows (lines 597-606) finds
\* FAILED with unexpected set: it logs and counts nothing.
UdpExceptWrite(i) ==
    /\ i \in Items
    /\ ipc[i] = "except_w"
    /\ failed_count' = tmp[i] + 1
    /\ tmp' = [tmp EXCEPT ![i] = 0]
    /\ istate' = [istate EXCEPT ![i] = "FAILED"]
    /\ unexpected' = [unexpected EXCEPT ![i] = TRUE]
    /\ ipc' = [ipc EXCEPT ![i] = "done"]
    /\ UNCHANGED <<mode, max_workers, nItems, bpc, prepared, ntasks, step,
                   raised, exc_info, pending, handled, success_count,
                   moved, removed,
                   notBatch>>

\* a finally clause that takes no item for failed
CountsAsFailedNever(st) == FALSE

\* line 597: `if downloader.state is DownloaderState.FAILED`
CountsAsFailed(st) == st = "FAILED"

\* the tasks of item i that have returned
Returned(i) == IF raised[i] = "none" THEN step[i] ELSE step[i] - 1

\* the output file of an item is written by the task before the clean-up
\* task, the last one of the pipeline (BilibiliDownloader.process, the
\* "Merge video and audio files" task): it exists once that task returned
OutputFileExists(i) == Returned(i) >= ntasks[i] - 1

\* the finally clause when the try block was left without the except clause
\* (unexpected is False), lines 597-609: a FAILED item is counted, every
\* other state is handled as a success.  The worker loads the counter it is
\* about to increment.
UdpFinally(i) ==
    /\ i \in Items
    /\ ipc[i] = "finally"
    /\ ~unexpected[i]
    /\ \/ /\ CountsAsFailed(istate[i])
          /\ tmp' = [tmp EXCEPT ![i] = failed_count]
          /\ ipc' = [ipc EXCEPT ![i] = "failed_w"]
       \/ /\ ~CountsAsFailed(istate[i])
          /\ tmp' = [tmp EXCEPT ![i] = success_count]
          /\ ipc' = [ipc EXCEPT ![i] = "success_w"]
    /\ UNCHANGED <<mode, max_workers, nItems, bpc, istate, prepared, ntasks,
                   step, raised, exc_info, pending, unexpected, handled,
                   success_count, failed_count, moved, removed,
                   notBatch>>

\* line 600, second half of `self.failed_count += 1`, then lines 602-630
UdpFailedWrite(i) ==
    /\ i \in Items
    /\ ipc[i] = "failed_w"
    /\ failed_count' = tmp[i] + 1
    /\ tmp' = [tmp EXCEPT ![i] = 0]
    /\ ipc' = [ipc EXCEPT ![i] = "done"]
    /\ UNCHANGED <<mode, max_workers, nItems, bpc, istate, prepared, ntasks,
                   step, raised, exc_info, pending, unexpected, handled,
                   success_count, moved, removed,
                   notBatch>>

\* line 609, second half of `self.success_count += 1`, then lines 611-630:
\* the log file (created by __init__) is renamed into the log directory, the
\* output file into the batch's save directory, and the item's save
\* directory is removed.  Path.rename raises FileNotFoundError when the
\* output file does not exist; raised inside the finally clause, it takes the
\* place of the exception that was on its way out of the worker.
UdpSuccessWrite(i) ==
    /\ i \in Items
    /\ ipc[i] = "success_w"
    /\ success_count' = tmp[i] + 1
    /\ tmp' = [tmp EXCEPT ![i] = 0]
    /\ ipc' = [ipc EXCEPT ![i] = "done"]
    /\ IF OutputFileExists(i)
       THEN /\ moved' = [moved EXCEPT ![i] = {"log", "output"}]
            /\ removed' = [removed EXCEPT ![i] = TRUE]
            /\ UNCHANGED pending
       ELSE /\ moved' = [moved EXCEPT ![i] = {"log"}]
            /\ pending' = [pending EXCEPT ![i] = "FileNotFoundError"]
            /\ UNCHANGED removed
    /\ UNCHANGED <<mode, max_workers, nItems, bpc, istate, prepared, ntasks,
                   step, raised, exc_info, unexpected, handled,
                   failed_count,
                   notBatch>>

\* handle_downloader_futures, lines 632-646: as_completed hands over a
\* finished future whose f.result() raises.  A KeyboardInterrupt is re-raised
\* and leaves the loop; any other exception is logged and, if
\* exit_on_download_failed, followed by exit(1); otherwise the loop goes on.
\* (A future whose result() returns changes nothing: the loop goes on.)
HandleFuture(i) ==
    /\ bpc = "waiting"
    /\ i \in Items
    /\ ipc[i] = "done"
    /\ pending[i] # "none"
    /\ ~handled[i]
    /\ handled' = [handled EXCEPT ![i] = TRUE]
    /\ bpc' = IF pending[i] = "KeyboardInterrupt" THEN "interrupted"
              ELSE IF batch_exit_on_download_failed THEN "exiting"
              ELSE bpc
    /\ UNCHANGED <<mode, max_workers, nItems, ipc, istate, prepared, ntasks,
                   step, raised, exc_info, pending, unexpected, tmp,
                   success_count, failed_count, moved, removed,
                   notBatch>>

\* as_completed is exhausted and the loop was not left by an exception: the
\* executor and BaseBatchDownloader.download() return
BatchReturn ==
    /\ bpc = "waiting"
    /\ \A i \in Items : ipc[i] = "done" /\ (pending[i] = "none" \/ handled[i])
    /\ bpc' = "returned"
    /\ UNCHANGED <<mode, max_workers, nItems, ipc, istate, prepared, ntasks,
                   step, raised, exc_info, pending, unexpected, tmp, handled,
                   success_count, failed_count, moved, removed,
                   notBatch>>

\* the KeyboardInterrupt, or the SystemExit of exit(1), leaves the
\* `with ThreadPoolExecutor` block, whose __exit__ is shutdown(wait=True): it
\* returns when every submitted work item has run; then the interrupt leaves
\* download(), or the process exits
BatchInterrupted ==
    /\ bpc \in {"interrupted", "exiting"}
    /\ \A i \in Items : ipc[i] = "done"
    /\ bpc' = IF bpc = "interrupted" THEN "raised" ELSE "exited"
    /\ UNCHANGED <<mode, max_workers, nItems, ipc, istate, prepared, ntasks,
                   step, raised, exc_info, pending, unexpected, tmp, handled,
                   success_count, failed_count, moved, removed,
                   notBatch>>

\* BaseDownloader.__init__ (lines 266-277) for every item and
\* BaseBatchDownloader.__init__ (lines 489, 501-502).  In "single" mode one
\* downloader is iterated by its caller; otherwise NItems downloaders are
\* about to be run by the batch.
InitOf(modes, exit_flag) ==
    /\ mode \in modes
    /\ batch_exit_on_download_failed = exit_flag
    /\ max_workers \in (IF mode = "single" THEN {1} ELSE 1..MaxWorkers)
    /\ nItems = (IF mode = "single" THEN 1 ELSE NItems)
    /\ bpc = (IF mode = "single" THEN "single" ELSE "init")
    /\ ipc = [i \in 1..NItems |->
                 IF mode = "single" /\ i = 1 THEN "iter" ELSE "queued"]
    /\ istate = [i \in 1..NItems |-> "NOT_STARTED"]
    /\ prepared = [i \in 1..NItems |-> FALSE]
    /\ ntasks = [i \in 1..NItems |-> 0]
    /\ step = [i \in 1..NItems |-> 0]
    /\ raised = [i \in 1..NItems |-> "none"]
    /\ exc_info = [i \in 1..NItems |-> FALSE]
    /\ pending = [i \in 1..NItems |-> "none"]
    /\ unexpected = [i \in 1..NItems |-> FALSE]
    /\ tmp = [i \in 1..NItems |-> 0]
    /\ handled = [i \in 1..NItems |-> FALSE]
    /\ success_count = 0
    /\ failed_count = 0
    /\ moved = [i \in 1..NItems |-> {}]
    /\ removed = [i \in 1..NItems |-> FALSE]
    /\ TaskIdle
    /\ TransferIdle
    /\ ItemIdle
    /\ ExtraIdle

\* exit_on_download_failed is True unless the caller of
\* BaseBatchDownloader.__init__ says otherwise (line 478)
Init == InitOf({"single", "progress", "direct"}, TRUE)

\* a batch built with exit_on_download_failed=False
InitKeepGoing == InitOf({"progress", "direct"}, FALSE)

Next ==
    \/ BatchDownload
    \/ \E i \in 1..NItems : RunDownloader(i)
    \/ \E i \in 1..NItems : UdpBegin(i)
    \/ \E i \in 1..NItems : DownloadStep(i)
    \/ \E i \in 1..NItems : UdpExceptRead(i)
    \/ \E i \in 1..NItems : UdpExceptWrite(i)
    \/ \E i \in 1..NItems : UdpFinally(i)
    \/ \E i \in 1..NItems : UdpFailedWrite(i)
    \/ \E i \in 1..NItems : UdpSuccessWrite(i)
    \/ \E i \in 1..NItems : HandleFuture(i)
    \/ BatchReturn
    \/ BatchInterrupted

Spec == Init /\ [][Next]_vars

SpecKeepGoing == InitKeepGoing /\ [][Next]_vars

InitTask ==
    /\ inst_val \in Vals
    /\ ltasks = <<>>
    /\ ltlog = <<>>
    /\ TransferIdle
    /\ BatchIdle
    /\ ItemIdle
    /\ ExtraIdle

NextTask ==
    \/ Construct
    \/ \E i \in 1..MaxTasks : LinerTaskStart(i)

SpecTask == InitTask /\ [][NextTask]_vars

(***************************************************************************)
(* One item downloader: pipeline, transfer pool, handle_futures            *)
(***************************************************************************)
\* what a caller may pass as process_func: nothing, a function, or
\* something that is not callable
ProcessFuncs == {"none", "callable", "not_callable"}

\* a pipeline that always takes the live-progress runner
RunnerAlwaysProgress(cli) == "run_download_tasks_with_progress"

\* bilibili/downloader.py:239-251: the runner of the transfers
RunnerFor(cli) ==
    IF cli THEN "run_download_tasks_with_progress"
    ELSE "run_download_tasks_directly"

\* bilibili/downloader.py:253-268: the caller's process function if it is
\* not None and callable, else BilibiliDownloader.process
ProcessFor(pf) == IF pf = "callable" THEN "process_func" ELSE "process"

\* bilibili/downloader.py:228-271, BilibiliDownloader.prepare_tasks: the
\* LinerTasks it appends to self.tasks, in the order of the appends
prepare_tasks(cli, pf) ==
    <<[name |-> "Search video links", fn |-> "add_video_download_task"],
      [name |-> "Search audio links", fn |-> "add_audio_download_task"],
      [name |-> "Download video and audio", fn |-> RunnerFor(cli)],
      [name |-> "Merge video and audio files", fn |-> ProcessFor(pf)],
      [name |-> "Clean up", fn |-> "clean"]>>

\* the names of the tasks of BilibiliDownloader.prepare_tasks, in the order
\* of the appends
Pipeline == <<"Search video links", "Search audio links",
              "Download video and audio", "Merge video and audio files",
              "Clean up">>

\* add_video_download_task / add_audio_download_task append one DownloadTask
AddsDownloadTask(name) ==
    name \in {"Search video links", "Search audio links"}

\* the task whose function is run_download_tasks_with_progress or
\* run_download_tasks_directly
RunsDownloadTasks(name) == name = "Download video and audio"

\* a run_tasks that walks the list from its end
TaskAtReversed(ts, k) == ts[Len(ts) + 1 - k]

\* run_tasks, line 355: `for task_idx, task in enumerate(self.tasks)`
TaskAt(ts, k) == ts[k]

\* what the function of a task other than the transfer runner may raise
StepRaises == {"Exception", "ExceptionNoArgs", "KeyboardInterrupt"}

\* how the future of a DownloadTask may end.  ValueError is "All urls
\* failed."; run_download_task (line 401) divides by the total size, which is
\* 0 when the response has no Content-Length.
FutureResults(cli) ==
    {"ok", "ValueError", "KeyboardInterrupt"}
        \cup (IF cli THEN {} ELSE {"ZeroDivisionError"})

\* download(), lines 381-386: the handler of `except Exception` logs one
\* error entry; with empty args the message f"Error: {e.args[0]}" raises
\* before self.log is called
LogsError(kind) == kind = "Exception"

\* an exception of the given kind goes from run_tasks into the handlers of
\* download() (lines 374-395) and from there, possibly, to the caller
RaiseInDownload(kind) ==
    /\ draised' = kind
    /\ dstate' = StateAfterRaise(kind, "STARTED")
    /\ dexc_info' = IF kind \in {"Exception", "ExceptionNoArgs"}
                    THEN kind ELSE dexc_info
    /\ errors' = IF LogsError(kind) THEN errors + 1 ELSE errors
    /\ escaped' = Escapes(kind)
    /\ dpc' = "done"

\* One next() on download() by its caller (list(d.download()), cli.py line
\* 188).  The first one assigns STARTED and calls prepare_tasks.  run_tasks
\* starts the next task: a task other than the transfer runner returns or
\* raises at once; the transfer runner submits every DownloadTask to its
\* pool and enters handle_futures.  With no task left the state is FINISHED.
ItemStep ==
    /\ dpc \in {"idle", "iter"}
    /\ LET built == prepare_tasks(from_cli, process_func)
           ts == IF dprepared THEN tasks
                 ELSE tasks \o [k \in DOMAIN built |-> built[k].name]
           name == TaskAt(ts, started + 1)
       IN  /\ tasks' = ts
           /\ task_fns' = IF dprepared THEN task_fns
                          ELSE task_fns \o [k \in DOMAIN built |-> built[k].fn]
           /\ dprepared' = TRUE
           /\ \/ /\ started < Len(ts)
                 /\ ~RunsDownloadTasks(name)
                 /\ started' = started + 1
                 /\ \/ /\ trace' = trace \o <<[ev |-> "start", task |-> name],
                                             [ev |-> "return", task |-> name]>>
                       /\ download_tasks' =
                             IF AddsDownloadTask(name)
                             THEN Append(download_tasks, "new")
                             ELSE download_tasks
                       /\ dstate' = "STARTED"
                       /\ dpc' = "iter"
                       /\ UNCHANGED <<draised, dexc_info, errors, escaped>>
                    \/ /\ trace' = Append(trace,
                                          [ev |-> "start", task |-> name])
                       /\ \E kind \in StepRaises : RaiseInDownload(kind)
                       /\ UNCHANGED download_tasks
              \/ /\ started < Len(ts)
                 /\ RunsDownloadTasks(name)
                 /\ started' = started + 1
                 /\ trace' = Append(trace, [ev |-> "start", task |-> name])
                 /\ download_tasks' =
                       [t \in DOMAIN download_tasks |-> "running"]
                 /\ dstate' = "STARTED"
                 /\ dpc' = "transfer"
                 /\ UNCHANGED <<draised, dexc_info, errors, escaped>>
              \/ /\ started = Len(ts)
                 /\ dstate' = "FINISHED"
                 /\ dpc' = "done"
                 /\ UNCHANGED <<started, trace, download_tasks, draised,
                                dexc_info, errors, escaped>>
    /\ UNCHANGED <<from_cli, exit_on_download_failed, process_func, fs_done,
                   leaving, notItem>>

\* a pool thread runs run_download_task / _update_progress (lines 397-421)
\* for DownloadTask t to its end: the future holds a result or an exception
FutureSettles(t) ==
    /\ t \in DOMAIN download_tasks
    /\ download_tasks[t] = "running"
    /\ \E r \in FutureResults(from_cli) :
          download_tasks' = [download_tasks EXCEPT ![t] = r]
    /\ UNCHANGED <<from_cli, exit_on_download_failed, tasks, task_fns,
                   process_func, dprepared, dpc,
                   dstate, started, trace, fs_done, leaving, draised,
                   dexc_info, errors, escaped, notItem>>

\* handle_futures, lines 448-464: as_completed hands over a settled future.
\* A KeyboardInterrupt is re-raised; any other exception is logged as an
\* error and, if exit_on_download_failed, followed by exit(1); otherwise the
\* loop goes on.
HandleTransferFuture(t) ==
    /\ dpc = "transfer"
    /\ leaving = "none"
    /\ t \in DOMAIN download_tasks
    /\ t \notin fs_done
    /\ download_tasks[t] # "running"
    /\ fs_done' = fs_done \cup {t}
    /\ IF download_tasks[t] = "ok"
       THEN UNCHANGED <<leaving, errors>>
       ELSE IF download_tasks[t] = "KeyboardInterrupt"
       THEN /\ leaving' = "KeyboardInterrupt"
            /\ UNCHANGED errors
       ELSE /\ errors' = errors + 1
            /\ leaving' = IF exit_on_download_failed
                          THEN "SystemExit" ELSE "none"
    /\ UNCHANGED <<from_cli, exit_on_download_failed, tasks, task_fns,
                   process_func, dprepared,
                   download_tasks, dpc, dstate, started, trace, draised,
                   dexc_info, escaped, notItem>>

\* an executor whose with block is left without waiting for its threads
ExecutorExitNoWait(dts) == TRUE

\* lines 407 and 429, `with futures.ThreadPoolExecutor() as executor`:
\* leaving the block calls shutdown(wait=True), which returns when every
\* submitted call has ended
ExecutorExitWaits(dts) == \A t \in DOMAIN dts : dts[t] # "running"

\* run_download_tasks_directly / _with_progress, lines 406-412 and 423-446:
\* the `with ThreadPoolExecutor()` block is left, normally or by the
\* exception of handle_futures, when every pool thread has ended
\* (shutdown(wait=True)).  The task then returns to run_tasks, or its
\* exception reaches download().
RunDownloadTasksEnds ==
    /\ dpc = "transfer"
    /\ ExecutorExitWaits(download_tasks)
    /\ \/ /\ leaving = "none"
          /\ fs_done = DOMAIN download_tasks
          /\ trace' = Append(trace,
                [ev |-> "return", task |-> TaskAt(tasks, started)])
          /\ dpc' = "iter"
          /\ UNCHANGED <<leaving, dstate, draised, dexc_info, errors,
                         escaped>>
       \/ /\ leaving # "none"
          /\ RaiseInDownload(leaving)
          /\ leaving' = "none"
          /\ UNCHANGED trace
    /\ UNCHANGED <<from_cli, exit_on_download_failed, tasks, task_fns,
                   process_func, dprepared,
                   download_tasks, started, fs_done, notItem>>

\* BaseDownloader.__init__ (lines 242-281) with either value of from_cli and
\* of exit_on_download_failed
InitItem ==
    /\ from_cli \in BOOLEAN
    /\ exit_on_download_failed \in BOOLEAN
    /\ process_func \in ProcessFuncs
    /\ tasks = <<>>
    /\ task_fns = <<>>
    /\ dprepared = FALSE
    /\ download_tasks = <<>>
    /\ dpc = "idle"
    /\ dstate = "NOT_STARTED"
    /\ started = 0
    /\ trace = <<>>
    /\ fs_done = {}
    /\ leaving = "none"
    /\ draised = "none"
    /\ dexc_info = "NOT_SET"
    /\ errors = 0
    /\ escaped = "none"
    /\ TaskIdle
    /\ TransferIdle
    /\ BatchIdle
    /\ ExtraIdle

NextItem ==
    \/ ItemStep
    \/ \E t \in 1..Len(Pipeline) : FutureSettles(t)
    \/ \E t \in 1..Len(Pipeline) : HandleTransferFuture(t)
    \/ RunDownloadTasksEnds

SpecItem == InitItem /\ [][NextItem]_vars

(***************************************************************************)
(* BaseDownloader.download() from call to return, and what its driver does *)
(* with the outcome: a caller that iterates it to the end, or the batch    *)
(* worker update_downloader_progress.  The fields of `life`:               *)
(*   driver        who iterates download(): "caller" or "worker"           *)
(*   record        BaseDownloader.console.record                           *)
(*   ntasks        len(BaseDownloader.tasks)                               *)
(*   state         BaseDownloader.state                                    *)
(*   pc            where download() and its driver stand                   *)
(*   todo          tasks run_tasks has not started yet                     *)
(*   started       tasks whose function was called in this download()      *)
(*   shown         the task the worker's progress line names (its number   *)
(*                 in the task list, 0 before the first update)            *)
(*   runs          calls of download() so far                              *)
(*   exc           the exception in flight, or "none"                      *)
(*   escaped       the exception that left the current download()          *)
(*   after_calls   calls of after_download in the current download()       *)
(*   saved_texts   calls of console.save_text in the current download()    *)
(*   hook_state    the state after_download found                          *)
(*   failed_count, success_count   the worker's additions to the counters  *)
(*   unexpected    the local `unexpected` of update_downloader_progress    *)
(*   error_logs    logger.error entries of the batch that name the item    *)
(*   move_log_file_to_log_dir, move_output_file_to_parent_dir,             *)
(*   remove_downloader_save_dir   the coordinator's options of these names *)
(*   fs            the item's artifacts: the files in its save directory,  *)
(*                 the files in the shared directories, whether the save   *)
(*                 directory exists, the files deleted with it, and the    *)
(*                 error a rename raised                                   *)
(***************************************************************************)
\* the largest number of download() calls on one item downloader
MaxRuns == 2

\* a finally clause that is skipped when an exception is in flight
FinallyRunsOnReturn(exc) == exc = "none"

\* download(), line 392: the finally clause runs however the try statement
\* is left
FinallyRuns(exc) == TRUE

\* download(), lines 393-394: the transcript is saved when the console
\* records in memory
SavesText(record) == record

\* what after_download may do: BaseDownloader's returns (line 363), an
\* override may raise (xhs/downloader.py:153-160 moves the save directory)
HookOutcomes == {"none", "HookError"}

\* a worker that counts every Failed item in its finally clause
FinallyCountsAgain(st, unexp) == st = "FAILED"

\* update_downloader_progress, lines 597-600: the finally clause counts a
\* Failed item unless the except clause already did
FinallyCounts(st, unexp) == st = "FAILED" /\ ~unexp

\* a worker that reports only the failures download() recorded
LogsFailureExpectedOnly(st, unexp) == st = "FAILED" /\ ~unexp

\* update_downloader_progress, lines 597-604: logger.error for every item
\* whose state is FAILED
LogsFailure(st, unexp) == st = "FAILED"

\* download(), line 366, up to the first task: the state becomes STARTED
\* whatever it was.  A caller may call download() again on the same
\* object; a worker gets each downloader once (lines 573-576).
LifeCall ==
    /\ \/ life.pc = "idle"
       \/ life.pc = "done" /\ life.driver = "caller"
    /\ life.runs < MaxRuns
    /\ life' = [life EXCEPT !.runs = life.runs + 1,
                            !.state = "STARTED",
                            !.pc = "body",
                            !.todo = life.ntasks,
                            !.started = 0,
                            !.shown = 0,
                            !.exc = "none",
                            !.escaped = "none",
                            !.after_calls = 0,
                            !.saved_texts = 0,
                            !.hook_state = "none",
                            !.unexpected = FALSE]
    /\ UNCHANGED notLife

\* run_tasks, lines 355-360, and the handlers of download(), lines 374-386:
\* the function of the next task is called (`task.start()`, line 359); it
\* returns and the task is yielded (line 360, line 373), or it raises
LifeTask ==
    /\ life.pc = "body"
    /\ life.todo > 0
    /\ \/ life' = [life EXCEPT !.todo = life.todo - 1,
                                !.started = life.started + 1,
                                !.pc = "yielded"]
       \/ \E kind \in RaiseKinds :
            life' = [life EXCEPT
                       !.started = life.started + 1,
                       !.state = StateAfterRaise(kind, life.state),
                       !.exc = Escapes(kind),
                       !.pc = "finally"]
    /\ UNCHANGED notLife

\* the body of the loop over download() and the next() that follows it.
\* update_downloader_progress, lines 576-582: the worker updates the
\* progress line of the item with idx + 1 and the name of the task it was
\* handed; a caller's loop body does not touch the model's state.
LifeLoopBody ==
    /\ life.pc = "yielded"
    /\ life' = [life EXCEPT
                  !.pc = "body",
                  !.shown = IF life.driver = "worker" THEN life.started
                            ELSE life.shown]
    /\ UNCHANGED notLife

\* download(), lines 387-391: the else clause after the last task
LifeTasksEnd ==
    /\ life.pc = "body"
    /\ life.todo = 0
    /\ life' = [life EXCEPT !.state = "FINISHED", !.pc = "finally"]
    /\ UNCHANGED notLife

\* download(), lines 392-395: save_text when the console records, then
\* after_download; an exception of the hook replaces the one in flight
LifeFinally ==
    /\ life.pc = "finally"
    /\ IF FinallyRuns(life.exc)
       THEN \E h \in HookOutcomes :
              LET exc == IF h = "none" THEN life.exc ELSE h
              IN  life' = [life EXCEPT
                             !.pc = "out",
                             !.saved_texts = life.saved_texts
                                + (IF SavesText(life.record) THEN 1 ELSE 0),
                             !.after_calls = life.after_calls + 1,
                             !.hook_state = life.state,
                             !.exc = exc,
                             !.escaped = exc]
       ELSE life' = [life EXCEPT !.pc = "out", !.escaped = life.exc]
    /\ UNCHANGED notLife

\* a caller that iterates download() to its end: the generator returned or
\* its exception reaches the caller
LifeCallerEnds ==
    /\ life.pc = "out"
    /\ life.driver = "caller"
    /\ life' = [life EXCEPT !.pc = "done"]
    /\ UNCHANGED notLife

\* update_downloader_progress, lines 583-594: KeyboardInterrupt is raised
\* again, the bare except takes everything else
LifeWorkerExcept ==
    /\ life.pc = "out"
    /\ life.driver = "worker"
    /\ life' = IF life.exc \in {"none", "KeyboardInterrupt"}
               THEN [life EXCEPT !.pc = "wfinally"]
               ELSE [life EXCEPT !.pc = "wfinally",
                                 !.failed_count = life.failed_count + 1,
                                 !.state = "FAILED",
                                 !.unexpected = TRUE,
                                 !.exc = "none"]
    /\ UNCHANGED notLife

\* the tasks of the current download() that returned
LifeReturned(lf) == lf.ntasks - lf.todo

\* the files in the item's save directory when its worker reaches the
\* finally clause: the log file (create_log_file, lines 302-308, called by
\* the constructor) and, once the task before the clean-up has returned,
\* the output file
FilesInSaveDir(lf) ==
    {"log"} \cup (IF LifeReturned(lf) >= lf.ntasks - 1 THEN {"output"}
                  ELSE {})

\* a success branch that removes the save directory before the renames
SuccessOrderRemoveFirst == <<"rm_tree", "log", "output">>

\* update_downloader_progress, lines 611-624: the log file is renamed, the
\* output file is renamed, clean_downloader_save_dir is called
SuccessOrder == <<"log", "output", "rm_tree">>

\* Path.rename (lines 612-618) of a file of the save directory into the
\* shared directory, when the option of that file is set; it raises
\* FileNotFoundError when the file is not there.  clean_downloader_save_dir
\* (lines 648-650) with helper.rm_tree (utils/helper.py, lines 30-39):
\* every file of the directory is unlinked and the directory removed.  An
\* exception ends the branch.
RECURSIVE RunSuccess(_, _, _)
RunSuccess(steps, lf, fs) ==
    IF steps = <<>> \/ fs.err # "none" THEN fs
    ELSE LET st == Head(steps)
             enabled == IF st = "rm_tree" THEN lf.remove_downloader_save_dir
                        ELSE IF st = "log" THEN lf.move_log_file_to_log_dir
                        ELSE lf.move_output_file_to_parent_dir
             after ==
                IF ~enabled THEN fs
                ELSE IF st = "rm_tree"
                THEN IF fs.dir_exists
                     THEN [fs EXCEPT !.dir_exists = FALSE,
                                     !.deleted = fs.in_dir,
                                     !.in_dir = {}]
                     ELSE fs
                ELSE IF st \in fs.in_dir
                THEN [fs EXCEPT !.in_dir = fs.in_dir \ {st},
                                !.shared = fs.shared \cup {st}]
                ELSE [fs EXCEPT !.err = "FileNotFoundError"]
         IN  RunSuccess(Tail(steps), lf, after)

\* update_downloader_progress, lines 596-630: the finally clause
LifeWorkerFinally ==
    /\ life.pc = "wfinally"
    /\ life' = [life EXCEPT
                  !.pc = "done",
                  !.fs = IF life.state = "FAILED"
                         THEN [life.fs EXCEPT !.in_dir = FilesInSaveDir(life)]
                         ELSE RunSuccess(SuccessOrder, life,
                                 [life.fs EXCEPT
                                    !.in_dir = FilesInSaveDir(life)]),
                  !.failed_count = life.failed_count
                     + (IF FinallyCounts(life.state, life.unexpected)
                        THEN 1 ELSE 0),
                  !.error_logs = life.error_logs
                     + (IF LogsFailure(life.state, life.unexpected)
                        THEN 1 ELSE 0),
                  !.success_count = life.success_count
                     + (IF life.state = "FAILED" THEN 0 ELSE 1)]
    /\ UNCHANGED notLife

\* BaseDownloader.__init__ (lines 266-279) under either driver, and the
\* options of the coordinator (lines 476-494) when the driver is its worker
InitLife ==
    /\ \E d \in {"caller", "worker"}, r \in BOOLEAN, n \in 0..NSteps,
          ml \in BOOLEAN, mo \in BOOLEAN, rm \in BOOLEAN :
        /\ d = "caller" => (ml /\ mo /\ rm)
        /\ life = [driver |-> d,
                move_log_file_to_log_dir |-> ml,
                move_output_file_to_parent_dir |-> mo,
                remove_downloader_save_dir |-> rm,
                fs |-> [in_dir |-> {"log"}, shared |-> {},
                        dir_exists |-> TRUE, deleted |-> {},
                        err |-> "none"],
                record |-> r,
                ntasks |-> n,
                state |-> "NOT_STARTED",
                pc |-> "idle",
                todo |-> 0,
                started |-> 0,
                shown |-> 0,
                runs |-> 0,
                exc |-> "none",
                escaped |-> "none",
                after_calls |-> 0,
                saved_texts |-> 0,
                hook_state |-> "none",
                failed_count |-> 0,
                success_count |-> 0,
                unexpected |-> FALSE,
                error_logs |-> 0]
    /\ MainIdle
    /\ RetryIdle
    /\ DirsIdle
    /\ PoolsIdle

NextLife ==
    \/ LifeCall
    \/ LifeTask
    \/ LifeLoopBody
    \/ LifeTasksEnd
    \/ LifeFinally
    \/ LifeCallerEnds
    \/ LifeWorkerExcept
    \/ LifeWorkerFinally

SpecLife == InitLife /\ [][NextLife]_vars

(***************************************************************************)
(* Save directories of the item downloaders of a batch:                    *)
(* utils/helper.py read_ids_to_list, get_downloader_save_dir, the          *)
(* get_downloaders of the bilibili and xhs coordinators, and               *)
(* XhsNoteDownloader.after_download.  The fields of `dirs`:                *)
(*   site       which batch coordinator: "bilibili" or "xhs"               *)
(*   input      the identifiers given to the coordinator                   *)
(*   title      per note identifier: the title of its page                 *)
(*   built      get_downloaders() has run                                  *)
(*   ids        per item downloader: its identifier                        *)
(*   save_dirs  per item downloader: BaseDownloader.save_dir               *)
(*   hooked     the item downloaders whose after_download has run          *)
(*   exists     the directories that exist under the batch's save_dir      *)
(***************************************************************************)
\* the number of different identifiers (and of different titles)
MaxIds == 2

\* the largest number of identifiers in one string, and of strings in a list
MaxParts == 2

\* a string of identifiers separated by commas or white space, as the
\* sequence of its identifiers
IdStrings == UNION {[1..n -> 1..MaxIds] : n \in 1..MaxParts}

\* what a coordinator is given: one string (held as val[1]), or a list of
\* strings
IdInputs ==
    {[type |-> "str", val |-> <<x>>] : x \in IdStrings}
        \cup {[type |-> "list", val |-> xs] :
                xs \in UNION {[1..n -> IdStrings] : n \in 1..MaxParts}}

Range(f) == {f[k] : k \in DOMAIN f}

RECURSIVE SetToList(_)
\* list(set(...)): each element once (the order of a set of strings is not
\* fixed by the language; ascending order stands for it)
SetToList(S) ==
    IF S = {} THEN <<>>
    ELSE LET m == CHOOSE x \in S : \A y \in S : x <= y
         IN <<m>> \o SetToList(S \ {m})

RECURSIVE Chain(_)
\* itertools.chain.from_iterable
Chain(ls) == IF ls = <<>> THEN <<>> ELSE Head(ls) \o Chain(Tail(ls))

\* helper.py:52-75, read_ids_to_list: a string is split and its
\* identifiers are passed through a set; a list is mapped element by
\* element and the results are chained as they are
read_ids_to_list(ids) ==
    IF ids.type = "str" THEN SetToList(Range(ids.val[1]))
    ELSE Chain([k \in 1..Len(ids.val) |-> SetToList(Range(ids.val[k]))])

\* bilibili/downloader.py:295: list(set(sorted(read_ids_to_list(bvid_list))));
\* xhs/downloader.py:177: helper.read_ids_to_list(note_ids)
CoordinatorIds(site, ids) ==
    IF site = "bilibili" THEN SetToList(Range(read_ids_to_list(ids)))
    ELSE read_ids_to_list(ids)

\* core/downloader.py:513-514: self.save_dir / f"downloader-{idx}"
get_downloader_save_dir(idx) == <<"downloader", idx>>

\* xhs/downloader.py:154: self.save_dir.parent / correct_filename(title)
TitleDir(title) == <<"title", title>>

\* get_downloaders (bilibili/downloader.py:302-315, xhs/downloader.py:184-
\* 193): one item downloader per identifier, each with the directory
\* get_downloader_save_dir gives for its identifier;
\* BaseDownloader.__init__ creates the directory (line 271)
GetDownloaders ==
    /\ ~dirs.built
    /\ LET ids == CoordinatorIds(dirs.site, dirs.input)
           sds == [k \in 1..Len(ids) |-> get_downloader_save_dir(ids[k])]
       IN  dirs' = [dirs EXCEPT !.built = TRUE,
                                !.ids = ids,
                                !.save_dirs = sds,
                                !.exists = Range(sds)]
    /\ UNCHANGED notDirs

\* after_download of the k-th item downloader at the end of its download():
\* BaseDownloader's does nothing (core/downloader.py:362-363, used by
\* bilibili); XhsNoteDownloader's (xhs/downloader.py:153-160) moves the
\* directory to one named after the note's title unless that exists, and
\* takes the title directory as its save_dir in both cases
AfterDownload(k) ==
    /\ dirs.built
    /\ k \in DOMAIN dirs.save_dirs
    /\ k \notin dirs.hooked
    /\ LET dst == TitleDir(dirs.title[dirs.ids[k]])
           hooked == [dirs EXCEPT !.hooked = dirs.hooked \cup {k}]
       IN  dirs' =
             IF dirs.site = "xhs"
             THEN [hooked EXCEPT
                     !.exists = IF dst \notin dirs.exists
                                THEN (dirs.exists \ {dirs.save_dirs[k]})
                                        \cup {dst}
                                ELSE dirs.exists,
                     !.save_dirs[k] = dst]
             ELSE hooked
    /\ UNCHANGED notDirs

\* a coordinator given a str or a list[str] (helper.Ids); every note has
\* some title
InitDirs ==
    /\ \E s \in {"bilibili", "xhs"}, in \in IdInputs,
          t \in [1..MaxIds -> 1..MaxIds] :
        dirs = [site |-> s,
                input |-> in,
                title |-> t,
                built |-> FALSE,
                ids |-> <<>>,
                save_dirs |-> <<>>,
                hooked |-> {},
                exists |-> {}]
    /\ MainIdle
    /\ RetryIdle
    /\ LifeIdle
    /\ PoolsIdle

NextDirs ==
    \/ GetDownloaders
    \/ \E k \in 1..(MaxParts * MaxParts) : AfterDownload(k)

SpecDirs == InitDirs /\ [][NextDirs]_vars

\* C27: any two distinct item downloaders built by a batch coordinator have
\* distinct save directories, for every identifier input the coordinator
\* accepts, before and after their after_download hooks have run.
C27_DistinctSaveDirs ==
    \A a, b \in DOMAIN dirs.save_dirs :
        a # b => dirs.save_dirs[a] # dirs.save_dirs[b]

(***************************************************************************)
(* utils/decorator.py: retry(max_retries, interval, step)                  *)
(***************************************************************************)
\* the largest max_retries of the model
MaxBudget == 2

\* the largest interval of the model
MaxInterval == 1

\* the largest step of the model
MaxStep == 1

\* decorator.py:19-20, negative
Negative(value) == value < 0

\* decorator.py:22-23: retry() rejects a negative parameter with ValueError
RetryRejects(m, i, s) == Negative(m) \/ Negative(i) \/ Negative(s)

\* a pause that never grows
NextPauseFlat(p, s) == p

\* decorator.py:43, pause_time += step
NextPause(p, s) == p + s

\* decorator.py:35, the test that ends the retries
LastAttempt(a, m) == a = m

\* what one call of the wrapped function can do: return a value, raise an
\* Exception, or raise something `except Exception` does not catch
CallOutcomes ==
    {[kind |-> "ok", val |-> v] : v \in Vals}
        \cup {[kind |-> k] : k \in {"Exception", "KeyboardInterrupt",
                                    "SystemExit"}}

\* decorator.py:27-28: inner() is called; pause_time = interval, the loop
\* starts with attempt 0
RetryInvoke ==
    /\ retry.pc = "ready"
    /\ retry' = [retry EXCEPT !.pc = "loop",
                              !.pause_time = retry.interval,
                              !.attempt = 0]
    /\ UNCHANGED notRetry

\* decorator.py:29-36: one pass of the loop up to the sleep: the function is
\* called; its value is returned, a KeyboardInterrupt (or any other
\* BaseException) leaves inner(), an Exception on the last attempt becomes
\* MaxRetryExceedError and on an earlier attempt leads to the pause
RetryCall ==
    /\ retry.pc = "loop"
    /\ \E o \in CallOutcomes :
        LET called == [retry EXCEPT !.calls = Append(retry.calls, o)]
        IN  retry' =
              CASE o.kind = "ok" ->
                     [called EXCEPT
                        !.pc = "returned",
                        !.result = [kind |-> "return", val |-> o.val]]
                [] o.kind \in {"KeyboardInterrupt", "SystemExit"} ->
                     [called EXCEPT !.pc = "raised",
                                    !.result = [kind |-> o.kind]]
                [] OTHER ->
                     IF LastAttempt(retry.attempt, retry.max_retries)
                     THEN [called EXCEPT
                             !.pc = "raised",
                             !.result = [kind |-> "MaxRetryExceedError",
                                         val |-> retry.max_retries]]
                     ELSE [called EXCEPT !.pc = "sleep"]
    /\ UNCHANGED notRetry

\* decorator.py:37-43: the warning, time.sleep(pause_time), pause_time +=
\* step, and the loop goes to the next attempt
RetrySleep ==
    /\ retry.pc = "sleep"
    /\ retry' = [retry EXCEPT
                   !.sleeps = Append(retry.sleeps, retry.pause_time),
                   !.pause_time = NextPause(retry.pause_time, retry.step),
                   !.attempt = retry.attempt + 1,
                   !.pc = "loop"]
    /\ UNCHANGED notRetry

\* after retry(...)(func): a negative parameter was rejected, anything else
\* gives a wrapped function ready to be called
InitRetry ==
    /\ \E m \in -1..MaxBudget, i \in -1..MaxInterval, s \in -1..MaxStep :
        retry = [max_retries |-> m,
                 interval |-> i,
                 step |-> s,
                 pc |-> IF RetryRejects(m, i, s) THEN "ValueError"
                        ELSE "ready",
                 attempt |-> 0,
                 pause_time |-> 0,
                 calls |-> <<>>,
                 sleeps |-> <<>>,
                 result |-> [kind |-> "none"]]
    /\ MainIdle
    /\ LifeIdle
    /\ DirsIdle
    /\ PoolsIdle

NextRetry ==
    \/ RetryInvoke
    \/ RetryCall
    \/ RetrySleep

SpecRetry == InitRetry /\ [][NextRetry]_vars

(***************************************************************************)
(* The nested pools of the aggregate-progress mode.  The batch pool        *)
(* (ThreadPoolExecutor(max_workers=self.max_workers), line 540) runs one   *)
(* update_downloader_progress per item; the transfer runner of an item     *)
(* opens a pool of its own (ThreadPoolExecutor(), lines 407 and 438),      *)
(* submits the item's DownloadTasks to it and waits for them.  The fields  *)
(* of `pools`:                                                             *)
(*   max_workers   threads of the batch pool                               *)
(*   n, m          items of the batch, DownloadTasks per item              *)
(*   bpc           where BaseBatchDownloader.download() stands             *)
(*   pc            per item, where its worker stands                       *)
(*   queued, running, ended   per item, its transfers by stage             *)
(*   failed        per item, a transfer of it raised                       *)
(*   state         per item, BaseDownloader.state                          *)
(*   handled       the items whose future the main thread has handled      *)
(***************************************************************************)
\* the largest number of items of the batch in SpecPools
MaxPoolItems == 3
\* the largest number of DownloadTasks of an item in SpecPools
MaxTransfers == 2
\* threads of a ThreadPoolExecutor() built without max_workers (lines 407,
\* 438): min(32, cpu_count + 4), at least 5
ItemPoolWorkers == 5

\* the items whose worker occupies a thread of the batch pool
PoolsBusy(p) == {i \in 1..p.n : p.pc[i] \in {"steps", "transfer"}}

\* a runner that submits the transfers to the batch pool: a transfer waits
\* for a thread of the pool its item's worker is running on
TransferThreadFreeShared(p, i) ==
    LET sum[k \in 0..p.n] == IF k = 0 THEN 0 ELSE sum[k - 1] + p.running[k]
    IN  Cardinality(PoolsBusy(p)) + sum[p.n] < p.max_workers

\* lines 407 and 438: the transfers of an item are submitted to the pool
\* the runner has just built; a transfer starts when that pool has a thread
TransferThreadFree(p, i) == p.running[i] < ItemPoolWorkers

\* BaseBatchDownloader.download(), lines 652-656 and 525-552: every item is
\* submitted to the batch pool, the main thread waits in
\* handle_downloader_futures
PoolsDownload ==
    /\ pools.bpc = "init"
    /\ pools' = [pools EXCEPT !.bpc = "waiting"]
    /\ UNCHANGED notPools

\* a thread of the batch pool takes the oldest queued item and runs
\* update_downloader_progress (lines 558-582) up to the transfer runner
PoolsTakeItem(i) ==
    /\ pools.bpc = "waiting"
    /\ i \in 1..pools.n
    /\ pools.pc[i] = "queued"
    /\ \A j \in 1..(i - 1) : pools.pc[j] # "queued"
    /\ Cardinality(PoolsBusy(pools)) < pools.max_workers
    /\ pools' = [pools EXCEPT !.pc[i] = "steps", !.state[i] = "STARTED"]
    /\ UNCHANGED notPools

\* run_download_tasks_directly / _with_progress, lines 406-412 and 438-446:
\* the worker of the item builds the pool, submits every DownloadTask and
\* enters handle_futures
PoolsSubmit(i) ==
    /\ i \in 1..pools.n
    /\ pools.pc[i] = "steps"
    /\ pools' = [pools EXCEPT !.pc[i] = "transfer", !.queued[i] = pools.m]
    /\ UNCHANGED notPools

\* a thread of the pool takes a submitted transfer (run_download_task or
\* _update_progress, lines 397-421)
PoolsTransferStarts(i) ==
    /\ i \in 1..pools.n
    /\ pools.queued[i] > 0
    /\ TransferThreadFree(pools, i)
    /\ pools' = [pools EXCEPT !.queued[i] = @ - 1, !.running[i] = @ + 1]
    /\ UNCHANGED notPools

\* the transfer ends: its future holds a result or an exception
PoolsTransferEnds(i) ==
    /\ i \in 1..pools.n
    /\ pools.running[i] > 0
    /\ \E ok \in BOOLEAN :
          pools' = [pools EXCEPT !.running[i] = @ - 1,
                                 !.ended[i] = @ + 1,
                                 !.failed[i] = @ \/ ~ok]
    /\ UNCHANGED notPools

\* handle_futures has seen every future and the with block of the pool is
\* left (lines 448-464); the remaining tasks and the worker's finally
\* clause run (lines 575-630): the item is FINISHED, or FAILED when a
\* transfer raised, and the thread of the batch pool is free again
PoolsJoin(i) ==
    /\ i \in 1..pools.n
    /\ pools.pc[i] = "transfer"
    /\ pools.ended[i] = pools.m
    /\ pools' = [pools EXCEPT
                   !.pc[i] = "done",
                   !.state[i] = IF pools.failed[i] THEN "FAILED"
                                ELSE "FINISHED"]
    /\ UNCHANGED notPools

\* handle_downloader_futures, lines 632-646: as_completed hands the future
\* of an ended worker to the main thread
PoolsHandle(i) ==
    /\ pools.bpc = "waiting"
    /\ i \in 1..pools.n
    /\ pools.pc[i] = "done"
    /\ i \notin pools.handled
    /\ pools' = [pools EXCEPT !.handled = @ \cup {i}]
    /\ UNCHANGED notPools

\* every future was handled: the with blocks are left and download() returns
PoolsReturn ==
    /\ pools.bpc = "waiting"
    /\ pools.handled = 1..pools.n
    /\ pools' = [pools EXCEPT !.bpc = "returned"]
    /\ UNCHANGED notPools

\* BaseBatchDownloader.__init__ (lines 471-504) with from_cli true, for
\* 1..MaxPoolItems items of 1..MaxTransfers DownloadTasks each
InitPools ==
    /\ \E w \in 1..MaxWorkers, n \in 1..MaxPoolItems, m \in 1..MaxTransfers :
          pools = [max_workers |-> w,
                   n |-> n,
                   m |-> m,
                   bpc |-> "init",
                   pc |-> [i \in 1..n |-> "queued"],
                   queued |-> [i \in 1..n |-> 0],
                   running |-> [i \in 1..n |-> 0],
                   ended |-> [i \in 1..n |-> 0],
                   failed |-> [i \in 1..n |-> FALSE],
                   state |-> [i \in 1..n |-> "NOT_STARTED"],
                   handled |-> {}]
    /\ MainIdle
    /\ RetryIdle
    /\ LifeIdle
    /\ DirsIdle

NextPools ==
    \/ PoolsDownload
    \/ \E i \in 1..MaxPoolItems : PoolsTakeItem(i)
    \/ \E i \in 1..MaxPoolItems : PoolsSubmit(i)
    \/ \E i \in 1..MaxPoolItems : PoolsTransferStarts(i)
    \/ \E i \in 1..MaxPoolItems : PoolsTransferEnds(i)
    \/ \E i \in 1..MaxPoolItems : PoolsJoin(i)
    \/ \E i \in 1..MaxPoolItems : PoolsHandle(i)
    \/ PoolsReturn

SpecPools == InitPools /\ [][NextPools]_vars

\* the threads of the pools and the main thread are scheduled: a step that
\* can be taken is not put off forever
SpecPoolsFair == SpecPools /\ WF_vars(NextPools)

(***************************************************************************)
(* Properties of retry() (checked under SpecRetry)                         *)
(***************************************************************************)
\* the calls of the wrapped function that raised an Exception
AllFailed ==
    \A k \in 1..Len(retry.calls) : retry.calls[k].kind = "Exception"

\* C21: a function wrapped by retry(m, i, s) is called at most m+1 times and
\* never after a call that did not raise an Exception; the value of its
\* first success is what inner() returns; the k-th pause lasts i + (k-1)*s
\* and there is one pause between two consecutive calls and none after the
\* last; MaxRetryExceedError is raised exactly when m+1 calls were made and
\* all of them failed.
C21_RetryPolicy ==
    LET calls == retry.calls
        sleeps == retry.sleeps
    IN  /\ Len(calls) <= retry.max_retries + 1 \/ retry.pc = "ValueError"
        /\ \A k \in 1..(Len(calls) - 1) : calls[k].kind = "Exception"
        /\ \A k \in 1..Len(calls) :
            calls[k].kind = "ok" =>
                retry.result = [kind |-> "return", val |-> calls[k].val]
        /\ retry.result.kind = "return" => calls[Len(calls)].kind = "ok"
        /\ \A k \in 1..Len(sleeps) :
            sleeps[k] = retry.interval + (k - 1) * retry.step
        /\ Len(sleeps) = IF retry.pc = "loop" \/ calls = <<>>
                         THEN Len(calls) ELSE Len(calls) - 1
        /\ retry.result.kind = "MaxRetryExceedError"
            <=> (/\ Len(calls) = retry.max_retries + 1
                 /\ AllFailed
                 /\ retry.pc = "raised")
        /\ retry.result.kind = "MaxRetryExceedError"
            => Len(sleeps) = retry.max_retries

\* the budget is used up after two pauses of growing length
C21_Witness ==
    /\ retry.result.kind = "MaxRetryExceedError"
    /\ retry.max_retries = 2
    /\ retry.sleeps = <<1, 2>>

(***************************************************************************)
(* Properties of one item downloader's life (checked under SpecLife)       *)
(***************************************************************************)
\* the changes of state the state machine allows
AllowedChanges ==
    {<<"NOT_STARTED", "STARTED">>, <<"STARTED", "FINISHED">>,
     <<"STARTED", "FAILED">>, <<"STARTED", "CANCELLED">>}

\* C22: every change of an item downloader's state is NotStarted->Started,
\* Started->Finished, Started->Failed or Started->Cancelled, so Finished,
\* Failed and Cancelled are never left and Paused is never entered, also
\* under a second download() call and under the worker's except clause.
C22_StateMachine ==
    [][life'.state # life.state
        => <<life.state, life'.state>> \in AllowedChanges]_vars

\* C23: once a KeyboardInterrupt raised while the state was Started has
\* left download(), the state is Cancelled.
C23_InterruptCancels ==
    (/\ life.pc \in {"out", "wfinally", "done"}
     /\ life.escaped = "KeyboardInterrupt")
        => life.state = "CANCELLED"

\* C26: a run of download() calls after_download exactly once and not
\* before the try statement is left, whether the tasks returned, raised or
\* were interrupted; download() assigns no state after the hook; the
\* transcript is saved once in the same cases when the console records,
\* and never otherwise.
C26_AfterDownloadOnce ==
    /\ life.pc \in {"body", "yielded"} =>
          (life.after_calls = 0 /\ life.saved_texts = 0)
    /\ life.pc \in {"out", "wfinally", "done"} =>
        /\ life.after_calls = 1
        /\ life.saved_texts = IF life.record THEN 1 ELSE 0
    /\ life.pc = "out" => life.hook_state = life.state

\* an interrupted run with a recording console
C26_Witness ==
    /\ life.pc = "out"
    /\ life.escaped = "KeyboardInterrupt"
    /\ life.state = "STARTED"
    /\ life.record
    /\ life.after_calls = 1
    /\ life.saved_texts = 1

\* C28: when an exception other than KeyboardInterrupt left download()
\* under a batch worker, the worker ends with the item Failed, one
\* addition to failed_count, none to success_count, and no exception of
\* its own, so that its future completes normally.
C28_EscapeCountsOnce ==
    (/\ life.driver = "worker"
     /\ life.pc = "done"
     /\ life.escaped \notin {"none", "KeyboardInterrupt"})
        => /\ life.state = "FAILED"
           /\ life.failed_count = 1
           /\ life.success_count = 0
           /\ life.exc = "none"

\* the hook raised after download() had recorded success
C28_Witness ==
    /\ life.driver = "worker"
    /\ life.pc = "done"
    /\ life.escaped = "HookError"
    /\ life.hook_state = "FINISHED"
    /\ life.failed_count = 1

\* C29: when a batch worker is done with an item whose state is Failed, the
\* batch has written an ERROR entry that names the item.
C29_FailedIsLoggedAtError ==
    (life.driver = "worker" /\ life.pc = "done" /\ life.state = "FAILED")
        => life.error_logs >= 1

\* a failure download() did not record itself: exit(1) of a failed transfer
C29_Witness ==
    /\ life.driver = "worker"
    /\ life.pc = "done"
    /\ life.state = "FAILED"
    /\ life.escaped = "SystemExit"
    /\ life.error_logs = 1

(***************************************************************************)
(* Properties of DownloadTask (checked under SpecTransfer)                 *)
(***************************************************************************)
\* the session.request calls made by write() call a, in order
ContactsOf(a) == SelectSeq(contacts, LAMBDA c : c.attempt = a)

\* the items a consumer receives for a response that delivered chunks cs
ChunkItems(cs) == [k \in 1..Len(cs) |-> [kind |-> "chunk", val |-> cs[k]]]

\* C5 - Failover order: within one request() call the candidates are contacted
\* in the order of media.urls starting with the primary; the loop moves from
\* candidate k to k+1 only when candidate k has failed max_retries+1 times in
\* a row, and nothing is contacted after a successful call.
C5_FailoverOrder ==
    \A a \in 1..2 :
        LET S == ContactsOf(a)
        IN  /\ (S # <<>> => S[1].url = 1)
            /\ \A j \in 1..Len(S) :
                 /\ S[j].ok => j = Len(S)
                 /\ j < Len(S) =>
                      \/ S[j + 1].url = S[j].url
                      \/ /\ S[j + 1].url = S[j].url + 1
                         /\ j > MaxRetries
                         /\ \A i \in (j - MaxRetries)..j :
                              S[i].url = S[j].url /\ ~S[i].ok
                         /\ Cardinality({i \in 1..Len(S) : S[i].url = S[j].url})
                              = MaxRetries + 1

\* C5 witness: the primary used up its budget and the first backup answered
C5_Witness ==
    /\ tpc = "done"
    /\ attempt = 1
    /\ Len(contacts) = MaxRetries + 2
    /\ contacts[Len(contacts)].url = 2
    /\ contacts[Len(contacts)].ok

\* C6 - Restart rewrites the whole file: once a restarted transfer completes,
\* the file holds exactly the chunks the second attempt's response delivered,
\* from the first one on.
C6_RestartRewritesWholeFile ==
    (tpc = "done" /\ attempt = 2) => file = delivered

\* C7 - Successful transfer: with no mid-stream error, start() yields the
\* total size first and then the chunks in delivery order; the file was
\* opened once, truncated, and holds exactly those chunks; finished is true
\* exactly when the iterator is exhausted.
C7_SuccessfulTransfer ==
    /\ (tpc = "done" /\ attempt = 1) =>
          /\ yielded = <<[kind |-> "size", val |-> total_size]>>
                          \o ChunkItems(delivered)
          /\ total_size = header
          /\ file = delivered
          /\ opens = 1
          /\ finished
    /\ (attempt = 1 /\ yielded # <<>>) => yielded[1].kind = "size"
    /\ (tpc # "done") => ~finished

\* C7 witness: the primary fails, the backup returns Content-Length 8 and two
\* chunks, over a file that held older data
C7_Witness ==
    /\ tpc = "done"
    /\ attempt = 1
    /\ contacts[Len(contacts)].url = 2
    /\ total_size = <<8>>
    /\ Len(delivered) = 2
    /\ file = delivered

\* C10 - Total size set once: _total_size is the Content-Length of the first
\* response the task ever got, whatever later responses (after failover or a
\* restart) say; the consumer receives it exactly once, as the first item.
C10_TotalSizeSetOnce ==
    /\ total_size = header
    /\ Cardinality({k \in 1..Len(yielded) : yielded[k].kind = "size"})
          = (IF total_size = <<>> THEN 0 ELSE 1)
    /\ (total_size # <<>>) =>
          yielded[1] = [kind |-> "size", val |-> total_size]

\* C10 witness: a restarted transfer whose second response came from a backup
C10_Witness ==
    /\ attempt = 2
    /\ tpc = "done"
    /\ total_size # <<>>
    /\ contacts[Len(contacts)].url = 2
    /\ ContactsOf(1)[Len(ContactsOf(1))].url = 1

Expected(m, b, v) ==
    [ args   |-> IF m = "args" THEN <<b>>
                 ELSE IF m = "delay_args" THEN <<v>> ELSE <<>>,
      kwargs |-> IF m = "kwargs" THEN <<b>>
                 ELSE IF m = "delay_kwargs" THEN <<v>> ELSE <<>> ]

\* C9 - Late binding: a task with delay_args (delay_kwargs) calls its function
\* with the shared value as it is at start(); a task with fixed args (kwargs)
\* calls it with the value captured at construction.
C9_LateBinding ==
    \A i \in 1..Len(ltasks) :
        ltlog[i].called =>
            ltlog[i].seen = Expected(ltlog[i].mode, ltlog[i].builtVal,
                                     ltlog[i].startVal)

\* C9 witness: the shared value changed between construction and start(); the
\* late-bound task saw the new value, the fixed one the old value
C9_Witness ==
    \E i, j \in 1..Len(ltasks) :
        /\ ltlog[i].mode = "delay_args" /\ ltlog[j].mode = "args"
        /\ ltlog[i].called /\ ltlog[j].called
        /\ ltlog[i].builtVal = ltlog[j].builtVal
        /\ ltlog[i].startVal # ltlog[i].builtVal
        /\ ltlog[j].startVal # ltlog[j].builtVal
        /\ ltlog[i].seen.args = <<ltlog[i].startVal>>
        /\ ltlog[j].seen.args = <<ltlog[j].builtVal>>

\* every candidate URL was contacted MaxRetries + 1 times and no contact of
\* the task ever succeeded
AllCandidatesExhausted ==
    /\ \A p \in DOMAIN contacts : ~contacts[p].ok
    /\ \A u \in 1..nUrls :
          Cardinality({p \in DOMAIN contacts :
                          contacts[p].url = MediaUrls(nUrls)[u]})
              = MaxRetries + 1

\* C11: when every candidate URL has used up its retry budget and no
\* connection ever succeeded, the transfer has ended with the error
\* "All urls failed", start() has yielded neither a total size nor a chunk,
\* and the finished flag is false.
C11_AllUrlsFailed ==
    AllCandidatesExhausted =>
        /\ tpc = "error"
        /\ terr = "ValueError: All urls failed."
        /\ yielded = <<>>
        /\ ~finished
        /\ total_size = <<>>

\* a media with a backup URL: both candidates failed four times
C11_Witness ==
    /\ AllCandidatesExhausted
    /\ nUrls = 2
    /\ Len(contacts) = 2 * (MaxRetries + 1)
    /\ tpc = "error"

(***************************************************************************)
(* Item pipeline and batch coordinator: claims                             *)
(***************************************************************************)
\* once a step of item i has raised, download() starts no further step
StepsStopAfterRaise ==
    \A i \in DOMAIN raised : raised[i] # "none" => step'[i] = step[i]

C2_BatchIsolation ==
    mode = "progress" /\ bpc = "returned" =>
        /\ \A i \in Items : raised[i] = "none" => istate[i] = "FINISHED"
        /\ \A i \in Items : raised[i] # "none" => istate[i] = "FAILED"
        /\ success_count = Cardinality({i \in Items : istate[i] = "FINISHED"})
        /\ failed_count = Cardinality({i \in Items : istate[i] = "FAILED"})

\* C3: N items that all succeed, run with max_workers < N, give
\* success_count = N and failed_count = 0 for every interleaving of the
\* workers.
C3_CountersAllSucceed ==
    /\ mode = "progress" /\ bpc = "returned"
    /\ max_workers < nItems
    /\ \A i \in Items : raised[i] = "none"
    => success_count = nItems /\ failed_count = 0

\* C4: when the batch returns in direct mode, every item's state is
\* Finished or Failed.
C4_DirectRunsAll ==
    mode = "direct" /\ bpc = "returned" =>
        \A i \in Items : istate[i] \in {"FINISHED", "FAILED"}

(***************************************************************************)
(* Properties of one item downloader (checked under SpecItem)              *)
(***************************************************************************)
\* the futures whose exception handle_futures logged
LoggedFutures ==
    {t \in fs_done : download_tasks[t] \notin {"ok", "KeyboardInterrupt"}}

\* the tasks started so far, in the order of their start
StartedTasks ==
    LET starts == SelectSeq(trace, LAMBDA e : e.ev = "start")
    IN  [k \in 1..Len(starts) |-> starts[k].task]

\* C12: when a transfer of the item has ended with all its candidate URLs
\* exhausted (and nothing was interrupted), download() ends with the state
\* Failed and the tasks after the transfer task (merge, clean up) were never
\* started, whatever exit_on_download_failed and from_cli are.
C12_FailedTransferFailsItem ==
    /\ dpc = "done"
    /\ \E t \in DOMAIN download_tasks : download_tasks[t] = "ValueError"
    /\ \A t \in DOMAIN download_tasks :
          download_tasks[t] # "KeyboardInterrupt"
    => /\ dstate = "FAILED"
       /\ StartedTasks = SubSeq(Pipeline, 1, 3)

\* C13: when a task raised anything but an interrupt, download() has ended
\* without an exception for its caller, the state is Failed, exc_info holds
\* the exception, and download() logged exactly one error entry for it.
C13_FailureContained ==
    dpc = "done" /\ draised \notin {"none", "KeyboardInterrupt"} =>
        /\ escaped = "none"
        /\ dstate = "FAILED"
        /\ dexc_info = draised
        /\ errors = Cardinality(LoggedFutures) + 1

\* C15: the tasks of an item start in the order in which prepare_tasks
\* appended them; a task starts only when the one before it has returned;
\* the task after the transfer runner starts only when every transfer future
\* has ended and was handled.
C15_StepOrder ==
    /\ Len(StartedTasks) = started
    /\ \A k \in 1..Len(StartedTasks) : StartedTasks[k] = tasks[k]
    /\ \A p \in 2..Len(trace) :
          /\ trace[p].ev = "start" => trace[p - 1].ev = "return"
          /\ trace[p].ev = "return" =>
                trace[p - 1] = [ev |-> "start", task |-> trace[p].task]
    /\ trace # <<>> => trace[1].ev = "start"
    /\ started > 3 =>
          \A t \in DOMAIN download_tasks :
              download_tasks[t] # "running" /\ t \in fs_done

\* the whole pipeline ran: five starts and five returns, both transfers ended
C15_Witness ==
    /\ dstate = "FINISHED"
    /\ Len(trace) = 2 * Len(Pipeline)
    /\ StartedTasks = Pipeline
    /\ Len(download_tasks) = 2

(***************************************************************************)
(* Batch coordinator: interrupts, relocation, counters, exit flag          *)
(***************************************************************************)
\* the items one of whose tasks raised something other than an interrupt
ErrorItems ==
    {i \in Items : raised[i] \notin {"none", "KeyboardInterrupt"}}

\* the batch was started by BaseBatchDownloader.download()
IsBatch == mode \in {"progress", "direct"}

\* C14: a KeyboardInterrupt raised by a task of an item is what leaves the
\* item's worker, unchanged; the item is never set to Failed nor counted in
\* failed_count, and the batch call never returns normally after it.
C14_InterruptPropagates ==
    /\ \A i \in Items :
          raised[i] = "KeyboardInterrupt" =>
              /\ istate[i] # "FAILED"
              /\ ipc[i] = "done" => pending[i] = "KeyboardInterrupt"
    /\ failed_count <= Cardinality(ErrorItems)
    /\ bpc = "returned" => \A i \in Items : raised[i] # "KeyboardInterrupt"

\* C16: the batch has renamed no file of an item whose state is Failed and
\* has not removed its save directory.
C16_FailedStaysQuarantined ==
    IsBatch =>
        \A i \in Items :
            istate[i] = "FAILED" => moved[i] = {} /\ ~removed[i]

\* the batch returned with a Failed item left in place next to a Finished one
\* whose files were moved
C16_Witness ==
    /\ mode = "progress" /\ bpc = "returned"
    /\ \E i, j \in Items :
          /\ istate[i] = "FAILED" /\ ipc[i] = "done"
          /\ moved[i] = {} /\ ~removed[i]
          /\ istate[j] = "FINISHED"
          /\ moved[j] = {"log", "output"} /\ removed[j]

\* C17: the batch renames a file of an item only when the item's state is
\* Finished or Failed, never while it is NotStarted or Started.
C17_RelocationAfterSettlement ==
    \A i \in Items :
        moved[i] # {} => istate[i] \in {"FINISHED", "FAILED"}

\* C18: success_count + failed_count never exceeds the number of items and
\* neither counter ever decreases.
C18_CounterBound ==
    /\ [](success_count + failed_count <= nItems)
    /\ [][/\ success_count' >= success_count
          /\ failed_count' >= failed_count]_vars

\* C19: in a batch with exit_on_download_failed false in which tasks raised
\* errors (and nothing was interrupted) the process is never terminated by
\* the batch; when the batch call has ended it has returned normally, every
\* item whose tasks raised nothing is Finished and every other item Failed.
C19_SiblingsSurvive ==
    /\ IsBatch
    /\ ~batch_exit_on_download_failed
    /\ ErrorItems # {}
    /\ \A i \in Items : raised[i] # "KeyboardInterrupt"
    => /\ bpc \notin {"interrupted", "exiting", "raised", "exited"}
       /\ bpc = "returned" =>
             \A j \in Items :
                /\ ipc[j] = "done"
                /\ j \in ErrorItems => istate[j] = "FAILED"
                /\ j \notin ErrorItems => istate[j] = "FINISHED"

\* item 1 failed at its first task, the batch returned, and the other items
\* are Finished
C19_Witness ==
    /\ mode = "progress" /\ ~batch_exit_on_download_failed
    /\ bpc = "returned"
    /\ raised[1] = "Exception" /\ step[1] = 1 /\ istate[1] = "FAILED"
    /\ \A j \in Items \ {1} : raised[j] = "none" /\ istate[j] = "FINISHED"

\* C20: a batch with exit_on_download_failed true in which the pipeline of an
\* item ended Failed does not return normally: the process is terminated.
C20_ExitOnFailure ==
    /\ IsBatch
    /\ batch_exit_on_download_failed
    /\ \E i \in Items : istate[i] = "FAILED" /\ ipc[i] = "done"
    => bpc # "returned"

(***************************************************************************)
(* Batch coordinator: cancellation and the size of the pool                *)
(***************************************************************************)
\* C24: once a KeyboardInterrupt has left the coordinator's wait on its
\* futures, no item whose pipeline had not started is started.
C24_NoStartAfterInterrupt ==
    [][bpc = "interrupted" =>
        \A i \in Items : ipc[i] = "queued" => ipc'[i] = "queued"]_vars

\* C25: at every moment of a batch run at most max_workers item pipelines
\* are executing, however many items the batch holds.
C25_BoundedParallelism ==
    IsBatch => Cardinality(Running) <= max_workers

\* the pool is full while an item is still waiting for a thread
C25_Witness ==
    /\ mode = "progress"
    /\ nItems > max_workers
    /\ Cardinality(Running) = max_workers
    /\ \E i \in Items : ipc[i] = "queued"

(***************************************************************************)
(* Pipeline assembly (checked under SpecItem)                              *)
(***************************************************************************)
\* C30: once prepare_tasks has run, the item's tasks are, in this order,
\* the two link searches that register the video and the audio transfer,
\* the run of the transfers, the merge and the clean-up; the transfers are
\* run by the live-progress runner when from_cli is true and by the
\* logging runner otherwise; the merge calls the caller's process function
\* when one was given and the built-in process when none was; the clean-up
\* is the last task; both transfers are registered when the run of the
\* transfers starts.
C30_PipelineAssembly ==
    dprepared =>
        /\ tasks = Pipeline
        /\ Len(task_fns) = Len(tasks)
        /\ SubSeq(task_fns, 1, 2) =
              <<"add_video_download_task", "add_audio_download_task">>
        /\ task_fns[3] = IF from_cli THEN "run_download_tasks_with_progress"
                         ELSE "run_download_tasks_directly"
        /\ process_func = "callable" => task_fns[4] = "process_func"
        /\ process_func = "none" => task_fns[4] = "process"
        /\ task_fns[Len(task_fns)] = "clean"
        /\ tasks[Len(tasks)] = "Clean up"
        /\ started >= 3 => Len(download_tasks) = 2

\* a pipeline built without a terminal and with the caller's process
\* function has run to its end
C30_Witness ==
    /\ dprepared
    /\ ~from_cli
    /\ process_func = "callable"
    /\ dstate = "FINISHED"
    /\ StartedTasks = tasks

(***************************************************************************)
(* Restart of a transfer (checked under SpecTransfer)                      *)
(***************************************************************************)
\* what stays true of a transfer: write() is entered at most twice, the
\* client is replaced at most once, and a "rewrite required" error that
\* reached the caller came from the second write() and left the task
\* unfinished
C31_Bounded ==
    /\ attempt <= 2
    /\ opens <= 2
    /\ client.id <= 1
    /\ client.id = 1 <=> (attempt = 2 \/ tpc = "rewrite")
    /\ terr = "ReWriteRequiredError" =>
          tpc = "error" /\ attempt = 2 /\ ~finished

\* how the client changes: only on a mid-stream error of the first write(),
\* to an instance that is not the old one and has its headers, cookies,
\* proxies and retry settings
C31_Replace ==
    client' # client =>
        /\ tpc = "stream" /\ attempt = 1 /\ tpc' = "rewrite"
        /\ client'.id # client.id
        /\ client'.headers = client.headers
        /\ client'.cookies = client.cookies
        /\ client'.proxies = client.proxies
        /\ client'.retry_settings = client.retry_settings

\* C31: DownloadTask.start restarts a transfer at most once, on a new
\* HttpClient instance that carries the headers, cookies, proxies and retry
\* settings of the old one; when the second attempt also breaks mid-stream
\* the "rewrite required" error reaches the caller, there is no third
\* attempt and finished stays false.
C31_AtMostOneRestart == []C31_Bounded /\ [][C31_Replace]_vars

\* the second write() of a task whose client was built with settings of its
\* own broke mid-stream
C31_Witness ==
    /\ tpc = "error"
    /\ terr = "ReWriteRequiredError"
    /\ client.id = 1
    /\ client.headers = "Referer"
    /\ opens = 2

(***************************************************************************)
(* Mid-stream errors (checked under SpecTransfer)                          *)
(***************************************************************************)
\* the call of session.request that obtained a response is the last one of
\* its write(): nothing is contacted in that write() afterwards
C32_ResponseIsLastContact ==
    \A k \in 1..Len(contacts) :
        contacts[k].ok =>
            \A j \in (k + 1)..Len(contacts) :
                contacts[j].attempt # contacts[k].attempt

\* a later candidate is contacted only after the retry budget of the one
\* before it was used up: MaxRetries + 1 failed calls in the same write()
C32_FailoverOnlyAfterBudget ==
    \A k \in 1..Len(contacts) :
        (/\ contacts[k].url > 1
         /\ \/ k = 1
            \/ contacts[k - 1].url # contacts[k].url
            \/ contacts[k - 1].attempt # contacts[k].attempt) =>
            /\ k > MaxRetries + 1
            /\ \A j \in (k - MaxRetries - 1)..(k - 1) :
                  /\ ~contacts[j].ok
                  /\ contacts[j].attempt = contacts[k].attempt
                  /\ contacts[j].url = contacts[k].url - 1

\* leaving the streaming of a response other than by its end or by an
\* exception of the consumer is the end of the write(): no request is made
\* and the state is "rewrite required"
C32_BreakEndsAttempt ==
    (/\ tpc = "stream"
     /\ tpc' \notin {"stream", "done"}
     /\ terr' \notin {"RuntimeError: generator raised StopIteration",
                      "ZeroDivisionError"}) =>
        /\ tpc' \in {"rewrite", "error"}
        /\ tpc' = "error" => terr' = "ReWriteRequiredError"
        /\ contacts' = contacts
        /\ urlIdx' = urlIdx

\* C32: a transport error raised while the chunks of a candidate URL are
\* streamed ends that write() at once with the "rewrite required" error:
\* the request is not retried and no later candidate is contacted in that
\* write(); only a used-up retry budget at connection time leads to the
\* next candidate.
C32_NoFailoverMidStream ==
    /\ [](C32_ResponseIsLastContact /\ C32_FailoverOnlyAfterBudget)
    /\ [][C32_BreakEndsAttempt]_vars

\* the first candidate of two answered and broke mid-stream in the first
\* write(); the second write() reached the second candidate after the
\* budget of the first was used up
C32_Witness ==
    /\ nUrls = 2
    /\ attempt = 2
    /\ \E k \in 1..Len(contacts) :
          contacts[k].ok /\ contacts[k].attempt = 1 /\ contacts[k].url = 1
    /\ \E k \in 1..Len(contacts) :
          contacts[k].attempt = 2 /\ contacts[k].url = 2

(***************************************************************************)
(* The progress line of an item (checked under SpecLife)                   *)
(***************************************************************************)
\* C33: under the batch worker the progress line of the item names step k
\* from the moment step k starts: whenever the functions of k steps have
\* been called in the current download(), the line names step k.
C33_ProgressNamesRunningStep ==
    (life.driver = "worker" /\ life.pc \in {"body", "yielded", "finally"}) =>
        life.shown = life.started

(***************************************************************************)
(* The success path of the batch worker (checked under SpecLife)           *)
(***************************************************************************)
\* C34: when the worker has handled an item that ended FINISHED, with the
\* relocation of both files and the removal of the save directory enabled,
\* the log file and the output file are in the shared directories, nothing
\* was deleted with the save directory, and the save directory is gone:
\* the renames come before the removal.
C34_SuccessPathOrdering ==
    (/\ life.driver = "worker"
     /\ life.pc = "done"
     /\ life.state = "FINISHED"
     /\ life.move_log_file_to_log_dir
     /\ life.move_output_file_to_parent_dir
     /\ life.remove_downloader_save_dir) =>
        /\ life.fs.shared = {"log", "output"}
        /\ life.fs.deleted = {}
        /\ life.fs.in_dir = {}
        /\ ~life.fs.dir_exists
        /\ life.fs.err = "none"

\* the worker handled a FINISHED item of two tasks with all three options
\* set
C34_Witness ==
    /\ life.driver = "worker"
    /\ life.pc = "done"
    /\ life.state = "FINISHED"
    /\ life.ntasks = NSteps
    /\ life.move_log_file_to_log_dir
    /\ life.move_output_file_to_parent_dir
    /\ life.remove_downloader_save_dir
    /\ life.fs.shared = {"log", "output"}

(***************************************************************************)
(* What the worker counts as a success (checked under SpecLife)            *)
(***************************************************************************)
\* C36: the batch worker adds to success_count for an item only when the
\* state of that item is FINISHED at that moment.
C36_OnlyFinishedCountsAsSuccess ==
    [][life.success_count' > life.success_count =>
          life.state = "FINISHED"]_vars

(***************************************************************************)
(* State and exc_info (checked under Spec)                                 *)
(***************************************************************************)
\* C37: in every reachable state an item is FAILED exactly when its
\* exc_info is set: a FAILED item has the pair recorded, an item that is
\* NOT_STARTED, STARTED or FINISHED has none.
C37_StateAgreesWithExcInfo ==
    \A i \in Items : exc_info[i] <=> istate[i] = "FAILED"

(***************************************************************************)
(* The task list of an item under the batch worker (checked under Spec)    *)
(***************************************************************************)
\* C39: in aggregate-progress mode, where the worker calls prepare_tasks()
\* and then iterates download(), the task list of an item holds the
\* pipeline once, and no more task functions are called than the pipeline
\* has steps: every step is run at most once.
C39_EachStepOnce ==
    mode = "progress" =>
        \A i \in Items :
            /\ prepared[i] => ntasks[i] = NSteps
            /\ ~prepared[i] => (ntasks[i] = 0 /\ step[i] = 0)
            /\ step[i] <= NSteps

\* an item of the batch has run its whole pipeline
C39_Witness ==
    /\ mode = "progress"
    /\ \E i \in Items :
          /\ prepared[i]
          /\ istate[i] = "FINISHED"
          /\ step[i] = NSteps
          /\ ntasks[i] = NSteps

(***************************************************************************)
(* The join of the transfers (checked under SpecItem)                      *)
(***************************************************************************)
\* the task that runs the transfers has been started
TransfersWereRun ==
    \E k \in 1..started : k <= Len(tasks) /\ RunsDownloadTasks(tasks[k])

\* C38: the task that runs the transfers ends, by return or by exception,
\* only when every registered transfer has ended; while a later task (the
\* merge, the clean-up) runs, and after download() is over, no transfer of
\* the item is running.
C38_TransfersJoined ==
    (TransfersWereRun /\ dpc # "transfer") =>
        \A t \in DOMAIN download_tasks : download_tasks[t] # "running"

\* handle_futures left its loop by exit(1) at the first failed transfer
\* without having looked at the other one, and download() is over
C38_Witness ==
    /\ dpc = "done"
    /\ draised = "SystemExit"
    /\ Len(download_tasks) = 2
    /\ Cardinality(fs_done) = 1
    /\ \E t \in DOMAIN download_tasks :
          t \notin fs_done /\ download_tasks[t] = "ok"

(***************************************************************************)
(* A response without Content-Length (checked under SpecTransfer)          *)
(***************************************************************************)
\* the ways a transfer ends that come from the transport: a break of the
\* second write(), no candidate reachable, or a response that never gave
\* write() its first item
TransportErrors ==
    {"ReWriteRequiredError", "ValueError: All urls failed.",
     "RuntimeError: generator raised StopIteration"}

\* C40: when the response carries no Content-Length, request() reports the
\* total size 0, and under the logging strategy run_download_task the
\* transfer still runs to its end: unless the transport fails, every chunk
\* is written and finished becomes true.
C40_MissingContentLength ==
    /\ total_size # <<>> => total_size = header
    /\ (consumer = "run_download_task" /\ total_size = <<0>>) =>
          /\ tpc = "error" => terr \in TransportErrors
          /\ tpc = "done" => finished

(***************************************************************************)
(* The nested pools (checked under SpecPoolsFair)                          *)
(***************************************************************************)
\* every item of the batch is FINISHED or FAILED and download() returned
PoolsSettled ==
    /\ pools.bpc = "returned"
    /\ \A i \in 1..pools.n : pools.state[i] \in {"FINISHED", "FAILED"}

\* C35: in aggregate-progress mode, whatever max_workers is (1, or any
\* number smaller than the number of items) and however many transfers an
\* item runs on its own pool, BaseBatchDownloader.download() eventually
\* returns with every item settled, provided every step and every transfer
\* ends.
C35_NoDeadlock == <>PoolsSettled

\* a batch of more items than workers, one worker, two transfers per item,
\* has returned
C35_Witness ==
    /\ PoolsSettled
    /\ pools.max_workers = 1
    /\ pools.n > 1
    /\ pools.m = MaxTransfers

=============================================================================
